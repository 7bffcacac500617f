--------------------------- MODULE MCTrainBatch ---------------------------
(* TrainBatch with two trajectories, of one prompt or of two.              *)
EXTENDS TrainBatch

OneOrTwoPrompts == {<<"p", "p">>, <<"p", "q">>}

Play(won, cons, valid, state) ==
  [won |-> won, cons |-> cons, valid |-> valid, state |-> state]

\* One to three steps; a last action invalid, a first one, none; states that
\* recur within an episode, across episodes, or not at all.
SomePlays ==
  { Play(TRUE,  <<1>>,       <<TRUE>>,              <<"a">>),
    Play(FALSE, <<0>>,       <<FALSE>>,             <<"b">>),
    Play(FALSE, <<-1, 1>>,   <<TRUE, FALSE>>,       <<"a", "a">>),
    Play(TRUE,  <<0, 1>>,    <<FALSE, TRUE>>,       <<"a", "b">>),
    Play(FALSE, <<1, 0, 1>>, <<TRUE, TRUE, TRUE>>,  <<"b", "a", "c">>),
    Play(TRUE,  <<1, 1, -1>>, <<TRUE, FALSE, TRUE>>, <<"c", "b", "b">>) }
=============================================================================
