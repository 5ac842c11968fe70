----------------------------- MODULE MCAlertSystem -----------------------------
(* Frames of a rider on a motorcycle (or, to another network, a car and a    *)
(* pedestrian) and of the next moment: further ahead, with a second one that *)
(* overlaps it just too little to be suppressed and a doubled detection.     *)
EXTENDS AlertSystem

Det(box, cid, conf) == [box |-> box, cid |-> cid, conf |-> conf]

Pair == <<Det(<<200, 180, 300, 260>>, 1, 62), Det(<<205, 90, 270, 190>>, 0, 58)>>
Ahead == <<Det(<<240, 180, 340, 260>>, 1, 55), Det(<<281, 180, 381, 260>>, 1, 51),
           Det(<<243, 180, 343, 260>>, 1, 45)>>

TestFrames == {<<>>, Pair, Ahead}
Gone == [helmet |-> 1, triple_riding |-> 1, overspeed |-> 1]

PictureSize(p) == 10 + p
Confs == {[username |-> "u", password |-> "p", recipients |-> <<"a", "b">>,
           sent_archive |-> "sent", max_per_email |-> 1]}
CONSTANTS l1, l2
On(model, lens) == [model |-> model, lens |-> lens]
Requests == {On("helmet", l1), On("overspeed", l1), On("triple_riding", l2), On("person", l2)}

TestModes == {[dry |-> FALSE, keep |-> TRUE], [dry |-> TRUE, keep |-> TRUE]}
=============================================================================
