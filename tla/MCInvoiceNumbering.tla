------------------------ MODULE MCInvoiceNumbering ------------------------
(* The invoices and the sessions are interchangeable.  *)
EXTENDS InvoiceNumbering, TLC

Symmetry == Permutations(Invoices) \cup Permutations(Sessions)

=============================================================================
