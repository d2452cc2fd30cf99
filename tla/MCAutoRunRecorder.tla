-------------------------- MODULE MCAutoRunRecorder --------------------------
EXTENDS AutoRunRecorder

Recipe == <<"record", "capture", "match", "measure", "end">>

Pair(s0, s1) == [c \in {0, 1} |-> IF c = 0 THEN s0 ELSE s1]

(* One camera: a recipe replayed and repeated, switched off, discarded by  *)
(* an ordinary command, recorded anew; the continuous mode.                *)
SingleScripts ==
  {Pair(s, <<>>) : s \in
     {Recipe \o <<"trigger", "trigger", "untrigger", "trigger">>,
      Recipe \o <<"trigger", "capture", "trigger">> \o Recipe \o <<"trigger">>,
      <<"chain", "capture", "match", "measure", "end", "trigger">> \o Recipe \o <<"trigger">>}}

(* Two cameras: both record, one of them twice; one records and replays    *)
(* while the other is used by hand; both replay.                           *)
DualScripts ==
  {Pair(<<"record", "match", "end", "record", "end">>, <<"match", "record", "end">>),
   Pair(<<"record", "capture", "end", "trigger">>, <<"chain", "match">>),
   Pair(<<"record", "end", "trigger">>, <<"record", "end", "trigger">>)}

(* One camera replays while the other is triggered and switched off, with  *)
(* nothing recorded.                                                       *)
LiveScripts == {Pair(<<"record", "end", "trigger">>, <<"trigger", "untrigger">>)}

(* One with a trigger of the inspection flow for either camera as well.    *)
FlowScript == {Pair(Recipe \o <<"trigger", "untrigger">>, <<>>)}

AllScripts == FlowScript \cup SingleScripts \cup DualScripts \cup LiveScripts

(* One camera replays a capture, the other's trigger finds no recording.   *)
CaptureScripts == {Pair(<<"record", "capture", "end", "trigger">>, <<"trigger">>)}
=============================================================================
