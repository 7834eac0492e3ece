---------------------------- MODULE MCTenantSeed ----------------------------
(* A dataset of one customer, one vendor, one invoice and one bill. *)
EXTENDS TenantSeed

OneCustomer == <<"CUST-001">>
OneVendor == <<"SUPPLIER">>
OneInvoice == <<"INV-0001">>
OneBill == <<[number |-> "BILL-0001", vendor |-> "SUPPLIER"]>>
AllAccounts == Roles
=============================================================================
