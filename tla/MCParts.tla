-------------------------------- MODULE MCParts --------------------------------
(***************************************************************************)
(* The parts that share no state with the rest, checked in one run: a      *)
(* behaviour is one of the wire or one of the filename guard.              *)
(***************************************************************************)
EXTENDS WireReader, FilenameGuard

VARIABLE part

Ada == [deviceId |-> "spaces/s/devices/1", deviceName |-> "Ada"]
Grace == [deviceId |-> "spaces/s/devices/2", deviceName |-> "Grace"]

MCParticipant == {Ada, Grace}
MCDevicePath == {p.deviceId : p \in MCParticipant}
MCNameLike == {p.deviceName : p \in MCParticipant}
MCCaption == {[deviceId |-> Ada.deviceId, messageId |-> 0, messageVersion |-> 0, text |-> "hello"],
              [deviceId |-> Grace.deviceId, messageId |-> 300, messageVersion |-> 20000, text |-> "yes"]}
MCMessage == {[messageId |-> "spaces/s/messages/1", deviceId |-> Ada.deviceId, text |-> "a", sender |-> "Ada"],
              [messageId |-> "spaces/s/messages/2", deviceId |-> Grace.deviceId, text |-> "b", sender |-> ""]}
MCOwn == {[text |-> "mine", sentAt |-> 128]}
MCCounter == {127, 16384}
MCPrefix == [d \in Download |-> IF d \in {"md", "same"} THEN "m" ELSE d]

Init == WireInit /\ GuardInit /\ part \in {"wire", "guard"}
Next ==
  \/ part = "wire" /\ WireNext /\ UNCHANGED <<guardVars, part>>
  \/ part = "guard" /\ GuardNext /\ UNCHANGED <<wireVars, part>>
Spec == Init /\ [][Next]_<<wireVars, guardVars, part>>
=============================================================================
