------------------------------ MODULE MCStorage ------------------------------
(***************************************************************************)
(* Small instances of Storage: every way to build and to edit a bundle of  *)
(* a few blocks; fragments of two MTUs that overlap, or the whole bundle   *)
(* beside its fragments, with crashes and a DeleteExpired; and the         *)
(* goroutines of a node that Sync one bundle.                              *)
(***************************************************************************)
EXTENDS Storage

\* A bundle of six bytes with blocks that are replicated and not
Sample(time) ==
    NewBundle([NewPrimary EXCEPT !.src = "node", !.dst = "node", !.time = time, !.life = 1],
              <<NewCanonicalBlock(2, IF time = "zero" THEN "age" ELSE "hop", {"replicate"}, <<>>),
                NewCanonicalBlock(4, "generic", {}, <<>>),
                NewCanonicalBlock(1, "payload", {}, <<1, 2, 3, 4, 5, 6>>)>>)

Nobody == [t \in Threads |-> {}]
Case(b, mtus, does) == [bundle |-> b, mtus |-> mtus, does |-> does @@ Nobody]

Fragments(time, mtus) ==
    Case(Sample(time), mtus, [handler |-> {"push"}, cron |-> {"delete"}])

AllSetups ==
    {Case(None, {7, 9, 11}, Nobody),
     Fragments("now", {11, 15}), Fragments("now", {13, 16}), Fragments("zero", {11}),
     Case(Sample("now"), {}, [handler |-> {"push", "update"}, pending |-> {"push", "update"}]),
     Case(Sample("now"), {}, [handler |-> {"push", "update", "delete"}]),
     Case(Sample("now"), {}, [handler |-> {"push"}, cron |-> {"delete"}])}
=============================================================================
