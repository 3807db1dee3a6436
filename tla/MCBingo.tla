------------------------------- MODULE MCBingo -------------------------------
(* TLC instance of Bingo.  focus is chosen once: three players who send three *)
(* match requests, or two who send four and play twice in one room, while an  *)
(* observer watches, or comes back as long as they play once.                 *)
EXTENDS Bingo

CONSTANTS a1, a2, a3, r1, r2

VARIABLE focus

MCActors == {a1, a2, a3}
MCRooms == {r1, r2}

\* The first two cards have a line with the third number that is drawn, the third one
\* with the fifth; the last one repeats a number and is refused.
MCCards == {<<1, 2, 3, 4, 0, 5, 6, 7, 8>>, <<1, 9, 8, 7, 6, 5, 4, 2, 3>>,
            <<5, 9, 8, 1, 0, 7, 6, 2, 4>>, <<1, 1, 2, 3, 0, 4, 5, 6, 7>>}

MCInit == Init /\ focus \in {"three", "observer"}

MCNext ==
  /\ UNCHANGED focus /\ Next
  /\ focus = "three" => matches' <= 3 /\ watches' = 0
  /\ focus = "observer" => /\ stage'[a3] = "entry" /\ given'[r2] = {}
                           /\ matches' <= 2 \/ watches' <= 1

MCSpec == MCInit /\ [][MCNext]_<<vars, focus>> /\ Fairness
=============================================================================
