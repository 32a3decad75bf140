------------------------------ MODULE MCDskCon -------------------------------
(* Two drives of three tracks with two sectors each, five requests, four        *)
(* attempts in a call and three faults of the controller.                      *)
EXTENDS DskCon, TLC

Asking(op, d, t, s) == [op |-> op, drive |-> d, track |-> t, sector |-> s]

MCDrives == {0, 1}
MCSectors == {1, 2}
MCRequests ==
    {Asking(Restore, 0, 0, 1), Asking(1, 0, 0, 1), Asking(Read, 0, 2, 2),
     Asking(Write, 0, 1, 1), Asking(Read, 1, 0, 1)}

\* Every sector has a value of its own.
MCContents ==
    (<<0, 0, 1>> :> "a" @@ <<0, 1, 1>> :> "b" @@ <<0, 2, 1>> :> "c"
     @@ <<1, 0, 1>> :> "d" @@ <<1, 1, 1>> :> "e" @@ <<1, 2, 1>> :> "f"
     @@ <<0, 0, 2>> :> "g" @@ <<0, 1, 2>> :> "h" @@ <<0, 2, 2>> :> "i"
     @@ <<1, 0, 2>> :> "j" @@ <<1, 1, 2>> :> "k" @@ <<1, 2, 2>> :> "l")
===============================================================================
