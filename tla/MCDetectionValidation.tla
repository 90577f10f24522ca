------------------------ MODULE MCDetectionValidation ------------------------
(* Both tools on a small instance: three boxes in a row of which the middle   *)
(* one overlaps its neighbours equally (a tie), frames of up to three boxes,   *)
(* a detection without a hypothesis, two stamps, a stamp that is not           *)
(* normalized and a box that is not readable.                                  *)
EXTENDS DetectionValidation, TLC

MCDet(x, result) == [cx |-> x, cy |-> 0, w |-> 4, h |-> 2, result |-> result]
MCLeft     == MCDet(0, [class |-> "car", score |-> 2])
MCMiddle   == MCDet(2, [class |-> "car", score |-> 1])
MCRight    == MCDet(4, [class |-> "bus", score |-> 3])
MCUnscored == MCDet(1, None)
MCBad      == [MCDet(1, [class |-> "car", score |-> 0]) EXCEPT !.w = -1]

MCFrame(ns, dets) == [sec |-> 0, nanosec |-> ns, dets |-> dets]

MCMessages == {MCFrame(0, <<MCLeft, MCRight>>), MCFrame(0, <<MCMiddle>>),
               MCFrame(1, <<MCMiddle, MCUnscored>>), MCFrame(1, <<MCRight>>),
               MCFrame(0, <<>>),
               MCFrame(0, <<MCRight, MCMiddle, MCLeft>>),
               MCFrame(2, <<MCLeft>>), MCFrame(0, <<MCBad, MCLeft>>)}

MCOption(policy, classAware, minScore, limit) ==
  [policy |-> policy, classAware |-> classAware, minScore |-> minScore, limit |-> limit,
   topic |-> "auto", types |-> "det" :> DetectionType @@ "image" :> "sensor_msgs/msg/Image"]

MCOptions == {MCOption("stamp", FALSE, None, 0), MCOption("stamp", TRUE, None, 1),
              MCOption("index", FALSE, 2, 0), MCOption("stamp", FALSE, None, -1),
              [MCOption("stamp", FALSE, None, 0) EXCEPT !.topic = "image"]}
=============================================================================
