----------------------------- MODULE MCSpmdSolve -----------------------------
(* Distributed solves on three ranks, for TLC: two that share a cut, and one *)
(* that owns no cell.                                                        *)
EXTENDS SpmdSolveProps

MCRanks == 0..2
MCHollow == {2}
MCNeighbours == [r \in MCRanks |-> CASE r = 0 -> {1} [] r = 1 -> {0} [] r = 2 -> {}]

Pcg == [method |-> "pcg", exact |-> TRUE, precon |-> FALSE, lopsided |-> FALSE,
        fixed |-> FALSE, every |-> 1, most |-> 2, report |-> TRUE, vote |-> TRUE,
        single |-> FALSE, cells |-> TRUE]
BiCGStab == [Pcg EXCEPT !.method = "pbicgstab", !.exact = FALSE, !.report = FALSE]
Gamg == [Pcg EXCEPT !.method = "gamg", !.exact = FALSE]

Short(s) == [s EXCEPT !.most = 1]
Refine(s) == [s EXCEPT !.single = TRUE]
Silent(s) == [s EXCEPT !.vote = FALSE]

World(solves, refuses) == [solves |-> solves, refuses |-> refuses]

(* A pressure and a momentum solve in a row; checks that skip iterations;    *)
(* the cycle as a preconditioner and as the method; fixed iterations; the    *)
(* refined build; refusals of one rank and of all; an empty mesh.            *)
MCWorlds ==
  {World(<<Pcg, Short(BiCGStab)>>, {}),
   World(<<[BiCGStab EXCEPT !.precon = TRUE, !.every = 2], Short(Pcg)>>, {<<1, 2>>}),
   World(<<[Short(Pcg) EXCEPT !.precon = TRUE, !.exact = FALSE, !.fixed = TRUE],
           Silent(Short(Gamg))>>, {}),
   World(<<[Pcg EXCEPT !.precon = TRUE, !.lopsided = TRUE]>>, {}),
   World(<<Refine(BiCGStab), [Pcg EXCEPT !.cells = FALSE], Short(Gamg)>>, {<<2, 3>>}),
   World(<<Refine([Short(Pcg) EXCEPT !.precon = TRUE]), Pcg>>, {<<0, 1>>}),
   World(<<Refine([Pcg EXCEPT !.precon = TRUE, !.lopsided = TRUE])>>, {}),
   World(<<Silent(Refine(Short(Gamg)))>>, {})}
=============================================================================
