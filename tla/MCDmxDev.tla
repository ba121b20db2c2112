------------------------------ MODULE MCDmxDev ------------------------------
(* Small instances of DmxDev for TLC. *)
EXTENDS DmxDev

Req(pid, oneshot, timeout) ==
  [pid |-> pid, oneshot |-> oneshot, timeout |-> timeout, crc |-> FALSE]
MCPids == {1, 2}
(* one-shot filters with a timeout on one pid, and a filter that also goes  *)
(* to another                                                               *)
Sharing == [k \in Devs |-> {Req(1, TRUE, TRUE)} \cup
                           (IF k = 1 THEN {Req(2, FALSE, FALSE)} ELSE {})]
OneShot == [k \in Devs |-> {Req(1, TRUE, TRUE)}]
Plain == [k \in Devs |-> {Req(1, FALSE, FALSE)}]
(* a video stream, and a pid the demux refuses *)
Streams == [k \in Devs |->
           {[pid |-> 2, pes |-> "VIDEO", output |-> "TAP"],
            [pid |-> BadPid, pes |-> OtherPes, output |-> "TAP"]}]
NoStreams == [k \in Devs |-> {}]
VideoOnly == {"VIDEO"}
=============================================================================
