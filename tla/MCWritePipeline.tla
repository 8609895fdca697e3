---- MODULE MCWritePipeline ----
EXTENDS WritePipeline, TLC

CONSTANTS u1, u2

Symmetry == Permutations(Users)
====
