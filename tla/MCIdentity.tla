----------------------------- MODULE MCIdentity -----------------------------
(* Identity.tla for TLC: two companies, each reviewed on its own.            *)
EXTENDS Identity, TLC

CONSTANTS h1, h2, u1, u2, r1, r2, atCorp, atNew, corp, new

DomainOfEmail == [e \in {atCorp, atNew} |-> IF e = atNew THEN new ELSE corp]

AboutReview == [r \in {r1, r2} |-> IF r = r1 THEN atCorp ELSE atNew]

\* Handlers and account rows are interchangeable.
Symmetry == Permutations(Handlers) \cup Permutations(Users)
=============================================================================
