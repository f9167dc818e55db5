----------------------------- MODULE MCVnodeCache ------------------------------
EXTENDS VnodeCache, TLC

Symmetry == Permutations(Vnode) \union Permutations(Ino)

================================================================================
