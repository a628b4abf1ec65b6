------------------------------ MODULE MCSeller ------------------------------
\* Seller on small instances: one user who may become a seller, two admin
\* consoles and one phone; the goods are one more than may be on sale.
EXTENDS Seller, TLC

CONSTANTS u1, g1, g2, c1, c2, p1

MCSellers == {u1}
MCGoods == {g1, g2}
MCConsoles == {c1, c2}
MCPhones == {p1}
\* Consoles and goods are interchangeable in Init and Next.
Symmetry == Permutations(MCConsoles) \cup Permutations(MCGoods)
=============================================================================
