---------------------------- MODULE MCCommanding ----------------------------
(***************************************************************************)
(* Commanding on small instances.  The packets are the ones that tell the  *)
(* flags apart: enter focus mode, leave it, set the trigger mode either    *)
(* way, or touch neither (a lens, exposure or blob packet).                *)
(***************************************************************************)
EXTENDS Commanding

LensPacket == [updateFocusMode |-> 0, focusMode |-> 0,
               updateTriggerMode |-> 0, triggerMode |-> 0]

MCPackets ==
  {LensPacket}
    \union {[LensPacket EXCEPT !.updateFocusMode = 1, !.focusMode = v]
             : v \in Bit}
    \union {[LensPacket EXCEPT !.updateTriggerMode = 1, !.triggerMode = v]
             : v \in Bit}
=============================================================================
