----------------------------- MODULE MCCatalog -----------------------------
(* A mailbox that is written in two ways, a text that is none, and edits around the least price. *)
EXTENDS Catalog, TLC

CONSTANTS t1, t2, u1, u2, e1, e2, e3, right, other, short, secret1, secret2

MCCanonical == [e \in Emails |-> IF e = "Sara@x.ir " THEN "sara@x.ir" ELSE e]

Show(title, price) == [title |-> title, rows |-> {[seats |-> 10, priceMinor |-> price]}]
MCDemos == <<Show("Concert", 450000), Show("Play", 350000)>>
MCContents == {Show("Hamlet", 100001), Show("Macbeth", 200000), Show("Hamlet", 100000)}

Symmetry == Permutations(Threads) \cup Permutations(UserIds) \cup Permutations(EventIds)
            \cup Permutations(Secrets) \cup Permutations(ValidPasswords)
=============================================================================
