-------------------------- MODULE SwkbdShimProofs --------------------------
(***************************************************************************)
(* What SwkbdShim guarantees for any set of text fields: its types, that a *)
(* closed keyboard stays quiet, that a keyboard is configured for the      *)
(* field it edits, and that the whole of it implements KeyboardService.    *)
(***************************************************************************)
EXTENDS SwkbdShim, TLAPS

\* A request, a withdrawal and a delivery, as they occur in several actions.
LEMMA RequestType ==
  ASSUME TypeOK, NEW f \in Fields, Request(f)
  PROVE  /\ req' \in [pending : BOOLEAN, for : Focusable]
         /\ req'.pending => req'.for \in Fields
  BY DEF TypeOK, Request, Focusable

LEMMA HideType ==
  ASSUME TypeOK, Hide
  PROVE  /\ req' \in [pending : BOOLEAN, for : Focusable]
         /\ req'.pending => req'.for \in Fields
  BY DEF TypeOK, Hide, Focusable

LEMMA DeliverType ==
  ASSUME TypeOK, DeliverResult
  PROVE  /\ res' \in [ready : BOOLEAN, cancelled : BOOLEAN, for : Focusable]
         /\ out' \in [how : {"none", "text", "cancel", "keys"}, for : Focusable]
<1>1. CASE ~res.ready
  BY <1>1 DEF TypeOK, DeliverResult
<1>2. CASE res.ready
  <2>1. res' = [res EXCEPT !.ready = FALSE]
    BY <1>2 DEF DeliverResult
  <2>2. res' \in [ready : BOOLEAN, cancelled : BOOLEAN, for : Focusable]
    BY <2>1 DEF TypeOK
  <2>3. out' \in [how : {"none", "text", "cancel", "keys"}, for : Focusable]
    BY <1>2 DEF TypeOK, DeliverResult, NoOutput, Focusable
  <2> QED
    BY <2>2, <2>3
<1> QED
  BY <1>1, <1>2

LEMMA NoOutputType ==
  NoOutput \in [how : {"none", "text", "cancel", "keys"}, for : Focusable]
  BY DEF NoOutput, Focusable

LEMMA InitType == Init => TypeOK
<1> SUFFICES ASSUME Init PROVE TypeOK
  OBVIOUS
<1>1. /\ req \in [pending : BOOLEAN, for : Focusable]
      /\ req.pending => req.for \in Fields
  BY DEF Init, Focusable
<1>2. res \in [ready : BOOLEAN, cancelled : BOOLEAN, for : Focusable]
  BY DEF Init, Focusable
<1> QED
  BY <1>1, <1>2, NoOutputType DEF Init, TypeOK, Focusable

LEMMA NextType == TypeOK /\ [Next]_vars => TypeOK'
<1> SUFFICES ASSUME TypeOK, [Next]_vars
             PROVE  TypeOK'
  OBVIOUS
<1>1. CASE UNCHANGED vars
  BY <1>1 DEF TypeOK, vars, shared, mainPc, engine
<1>2. CASE Deliver
  BY <1>2, DeliverType DEF TypeOK, Deliver, mainPc
<1>3. CASE \E f \in Focusable : StartMove(f)
  BY <1>3, HideType DEF TypeOK, StartMove, mainPc, Focusable
<1>4. CASE NameField
  BY <1>4 DEF TypeOK, NameField, mainPc
<1>5. CASE GainFocus
  BY <1>5, RequestType DEF TypeOK, GainFocus, mainPc, Focusable
<1>6. CASE ClickReleased
  BY <1>6, RequestType DEF TypeOK, ClickReleased, mainPc, Focusable
<1>7. CASE NothingHappens
  BY <1>7 DEF TypeOK, NothingHappens, shared, mainPc
<1>8. CASE HelperPoll
  BY <1>8, HideType, NoOutputType DEF TypeOK, HelperPoll, mainPc, Focusable
<1>9. CASE FrameDone
  BY <1>9 DEF TypeOK, FrameDone, shared, mainPc
<1>10. CASE TakeRequest
  BY <1>10 DEF TypeOK, TakeRequest, shared, engine
<1>11. CASE CreateFails
  BY <1>11 DEF TypeOK, CreateFails, engine
<1>12. CASE Show
  BY <1>12 DEF TypeOK, Show, engine
<1>13. CASE \E cancelled \in BOOLEAN : Close(cancelled)
  <2>1. PICK cancelled \in BOOLEAN : Close(cancelled)
    BY <1>13
  <2>2. res' \in [ready : BOOLEAN, cancelled : BOOLEAN, for : Focusable]
    BY <2>1 DEF TypeOK, Close
  <2>3. /\ req' \in [pending : BOOLEAN, for : Focusable]
        /\ req'.pending => req'.for \in Fields
    BY <2>1 DEF TypeOK, Close
  <2> QED
    BY <2>1, <2>2, <2>3 DEF TypeOK, Close, engine
<1>14. CASE GuardOver
  BY <1>14, ZenonT(40) DEF TypeOK, GuardOver, mainPc, engine
<1> QED
  BY <1>1, <1>2, <1>3, <1>4, <1>5, <1>6, <1>7, <1>8, <1>9, <1>10, <1>11, <1>12, <1>13,
     <1>14 DEF Next, Pump, Engine

\* swkbd_shim.c keeps its state well formed, whatever the order of the two
\* threads: above all, a pending request is one of a text field.
THEOREM TypeCorrect == Spec => []TypeOK
  BY InitType, NextType, PTL DEF Spec

----------------------------------------------------------------------------
LEMMA NextQuiet ==
  TypeOK /\ QuietAfterClose /\ [Next]_vars => QuietAfterClose'
<1> SUFFICES ASSUME TypeOK, QuietAfterClose, [Next]_vars
             PROVE  QuietAfterClose'
  OBVIOUS
<1> USE DEF QuietAfterClose
<1>1. CASE UNCHANGED vars
  BY <1>1 DEF vars, shared, mainPc
<1>2. CASE Deliver
  BY <1>2 DEF Deliver, mainPc
<1>3. CASE \E f \in Focusable : StartMove(f)
  BY <1>3 DEF TypeOK, StartMove, Hide, mainPc
<1>4. CASE NameField
  BY <1>4 DEF NameField, mainPc
<1>5. CASE GainFocus
  BY <1>5 DEF GainFocus, Request, mainPc
<1>6. CASE ClickReleased
  BY <1>6 DEF ClickReleased, Request, mainPc
<1>7. CASE NothingHappens
  BY <1>7 DEF NothingHappens, shared, mainPc
<1>8. CASE HelperPoll
  BY <1>8 DEF TypeOK, HelperPoll, Hide, mainPc
<1>9. CASE FrameDone
  BY <1>9 DEF FrameDone, shared, mainPc
<1>10. CASE TakeRequest
  BY <1>10 DEF TakeRequest, shared
<1>11. CASE CreateFails
  BY <1>11 DEF CreateFails
<1>12. CASE Show
  BY <1>12 DEF Show
<1>13. CASE \E cancelled \in BOOLEAN : Close(cancelled)
  BY <1>13 DEF TypeOK, Close
<1>14. CASE GuardOver
  BY <1>14 DEF GuardOver
<1> QED
  BY <1>1, <1>2, <1>3, <1>4, <1>5, <1>6, <1>7, <1>8, <1>9, <1>10, <1>11, <1>12, <1>13,
     <1>14 DEF Next, Pump, Engine

\* While KBD_REOPEN_GUARD_MS run after a keyboard, no request is pending and
\* no pump is under way, for any number of fields.
THEOREM ClosedQuietly == Spec => []QuietAfterClose
<1>1. Init => QuietAfterClose
  BY DEF Init, QuietAfterClose
<1>2. QED
  BY <1>1, NextQuiet, TypeCorrect, PTL DEF Spec

----------------------------------------------------------------------------
(* The hint is the focused field's.                                        *)

\* The helper names a field after the old one lost the focus and before the
\* new one has it.
HintFollowsFocus ==
  /\ focus # NoField => hint = focus
  /\ frame = "naming" => focus = NoField
  /\ frame = "asking" => focus = NoField /\ hint = moveTo

LEMMA NextHint ==
  HintFollowsFocus /\ [Next]_vars => HintFollowsFocus'
<1> SUFFICES ASSUME HintFollowsFocus, [Next]_vars
             PROVE  HintFollowsFocus'
  OBVIOUS
<1> USE DEF HintFollowsFocus
<1>1. CASE UNCHANGED vars
  BY <1>1 DEF vars, shared, engine
<1>2. CASE Deliver
  BY <1>2 DEF Deliver
<1>3. CASE \E f \in Focusable : StartMove(f)
  BY <1>3 DEF StartMove
<1>4. CASE NameField
  BY <1>4 DEF NameField
<1>5. CASE GainFocus
  BY <1>5 DEF GainFocus
<1>6. CASE ClickReleased
  BY <1>6 DEF ClickReleased
<1>7. CASE NothingHappens
  BY <1>7 DEF NothingHappens, shared
<1>8. CASE HelperPoll
  BY <1>8 DEF HelperPoll
<1>9. CASE FrameDone
  BY <1>9 DEF FrameDone, shared
<1>10. CASE TakeRequest
  BY <1>10 DEF TakeRequest, shared, engine
<1>11. CASE CreateFails
  BY <1>11 DEF CreateFails, engine
<1>12. CASE Show
  BY <1>12 DEF Show, engine
<1>13. CASE \E cancelled \in BOOLEAN : Close(cancelled)
  BY <1>13 DEF Close, engine
<1>14. CASE GuardOver
  BY <1>14 DEF GuardOver, engine
<1> QED
  BY <1>1, <1>2, <1>3, <1>4, <1>5, <1>6, <1>7, <1>8, <1>9, <1>10, <1>11, <1>12, <1>13,
     <1>14 DEF Next, Pump, Engine

\* swkbd_pump reads the hint of the field it edits unless that field has lost
\* the focus since it asked: the password keyboard never serves another field.
THEOREM KindIsRight == Spec => KindIsTheAskers
<1>1. Init => HintFollowsFocus
  BY DEF Init, HintFollowsFocus
<1>2. TypeOK /\ HintFollowsFocus /\ [Next]_vars
        => [Show => hint = pumpReq \/ focus # pumpReq]_vars
  BY NoFieldAssumption DEF TypeOK, HintFollowsFocus, Show
<1>3. QED
  BY <1>1, <1>2, NextHint, TypeCorrect, PTL DEF Spec, KindIsTheAskers

----------------------------------------------------------------------------
(* Every step is a step of KeyboardService, or none.                       *)

Asked  == IF req.pending THEN req.for ELSE NoField
Up     == IF pump = "idle" THEN NoField ELSE pumpReq
Answered == [ready |-> res.ready,
             for   |-> IF res.ready /\ ~res.cancelled THEN res.for ELSE NoField]

\* What the service does when req alone changes.
LEMMA RequestAsks ==
  ASSUME TypeOK, NEW f \in Fields, Request(f), UNCHANGED <<res, pump, pumpReq>>
  PROVE  Service!Next \/ UNCHANGED Service!vars
<1>1. CASE req.pending \/ recent
  BY <1>1 DEF Request, Service!vars
<1>2. CASE ~req.pending /\ ~recent
  <2>1. Asked = NoField /\ Asked' = f
    BY <1>2 DEF Request, Asked
  <2>2. Service!Ask(f)
    BY <2>1 DEF Asked, Service!Ask
  <2> QED
    BY <2>2 DEF Service!Next
<1> QED
  BY <1>1, <1>2

LEMMA HideWithdraws ==
  ASSUME TypeOK, Hide, UNCHANGED <<res, pump, pumpReq>>
  PROVE  Service!Next \/ UNCHANGED Service!vars
<1>1. CASE showing
  BY <1>1 DEF Hide, Service!vars
<1>2. CASE ~showing
  <2>1. ~req'.pending
    BY <1>2 DEF Hide, TypeOK
  <2>2. Service!Withdraw
    BY <2>1 DEF Service!Withdraw
  <2> QED
    BY <2>2 DEF Service!Next
<1> QED
  BY <1>1, <1>2

LEMMA DeliverTakes ==
  ASSUME TypeOK, DeliverResult, UNCHANGED <<req, pump, pumpReq>>
  PROVE  Service!Next \/ UNCHANGED Service!vars
<1>1. CASE ~res.ready
  BY <1>1 DEF DeliverResult, Service!vars
<1>2. CASE res.ready
  <2>1. res'.ready = FALSE
    BY <1>2 DEF DeliverResult, TypeOK
  <2>2. Service!Take
    BY <1>2, <2>1 DEF Service!Take, Service!NoAnswer
  <2> QED
    BY <2>2 DEF Service!Next
<1> QED
  BY <1>1, <1>2

LEMMA NextRefines ==
  ASSUME TypeOK, [Next]_vars
  PROVE  [Service!Next]_(Service!vars)
<1>1. CASE UNCHANGED vars
  BY <1>1 DEF vars, shared, mainPc, Service!vars
<1>2. CASE Deliver
  BY <1>2, DeliverTakes DEF Deliver, mainPc
<1>3. CASE \E f \in Focusable : StartMove(f)
  <2>1. UNCHANGED <<res, pump, pumpReq>> /\ (Hide \/ UNCHANGED req)
    BY <1>3 DEF StartMove, mainPc
  <2> QED
    BY <2>1, HideWithdraws DEF Service!vars
<1>4. CASE NameField
  BY <1>4 DEF NameField, mainPc, Service!vars
<1>5. CASE GainFocus
  <2>1. UNCHANGED <<res, pump, pumpReq>>
    BY <1>5 DEF GainFocus, mainPc
  <2>2. CASE moveTo = NoField
    BY <1>5, <2>1, <2>2 DEF GainFocus, Service!vars
  <2>3. CASE moveTo # NoField
    BY <1>5, <2>1, <2>3, RequestAsks DEF GainFocus, TypeOK, Focusable
  <2> QED
    BY <2>2, <2>3
<1>6. CASE ClickReleased
  BY <1>6, RequestAsks DEF ClickReleased, TypeOK, Focusable, mainPc
<1>7. CASE NothingHappens
  BY <1>7 DEF NothingHappens, shared, mainPc, Service!vars
<1>8. CASE HelperPoll
  <2>1. UNCHANGED <<res, pump, pumpReq>> /\ (Hide \/ UNCHANGED req)
    BY <1>8 DEF HelperPoll, mainPc
  <2> QED
    BY <2>1, HideWithdraws DEF Service!vars
<1>9. CASE FrameDone
  BY <1>9 DEF FrameDone, shared, mainPc, Service!vars
<1>10. CASE TakeRequest
  <2>1. /\ Asked # NoField /\ Up = NoField /\ Up' = Asked /\ UNCHANGED <<Asked, Answered>>
        /\ ~res.ready
    BY <1>10, NoFieldAssumption DEF TypeOK, TakeRequest, shared, Asked, Up, Answered
  <2>2. Service!Open
    BY <2>1 DEF Asked, Up, Answered, Service!Open
  <2> QED
    BY <2>2 DEF Service!Next
<1>11. CASE CreateFails
  <2>1. Up # NoField /\ Up' = NoField /\ Asked' = NoField
    BY <1>11, NoFieldAssumption DEF TypeOK, CreateFails, Asked, Up
  <2>2. Answered' = [ready |-> TRUE, for |-> NoField]
    BY <1>11 DEF TypeOK, CreateFails, Answered
  <2>3. Service!Close(NoField)
    BY <2>1, <2>2 DEF Asked, Up, Answered, Service!Close, Service!Answer
  <2> QED
    BY <2>3 DEF Service!Next
<1>12. CASE Show
  BY <1>12 DEF Show, Service!vars
<1>13. CASE \E cancelled \in BOOLEAN : Close(cancelled)
  <2>1. PICK cancelled \in BOOLEAN : Close(cancelled)
    BY <1>13
  <2> DEFINE given == IF cancelled THEN NoField ELSE pumpReq
  <2>2. Up = pumpReq /\ Up # NoField /\ Up' = NoField /\ Asked' = NoField
    BY <2>1, NoFieldAssumption DEF TypeOK, Close, Asked, Up
  <2>3. Answered' = [ready |-> TRUE, for |-> given]
    BY <2>1 DEF TypeOK, Close, Answered
  <2>4. given \in Fields \cup {NoField}
    BY <2>1 DEF TypeOK, Close, Focusable
  <2>5. Service!Close(given)
    BY <2>2, <2>3 DEF Asked, Up, Answered, Service!Close, Service!Answer
  <2> QED
    BY <2>4, <2>5 DEF Service!Next
<1>14. CASE GuardOver
  BY <1>14 DEF GuardOver, mainPc, Service!vars
<1> QED
  BY <1>1, <1>2, <1>3, <1>4, <1>5, <1>6, <1>7, <1>8, <1>9, <1>10, <1>11, <1>12, <1>13,
     <1>14 DEF Next, Pump, Engine

\* The safety half of ImplementsService for any number of fields: the shim opens
\* a keyboard only for an outstanding request and never over an answer that
\* swkbd_deliver has not taken, and answers each exactly once.
THEOREM ServiceSafety == Spec => Service!Init /\ [][Service!Next]_(Service!vars)
<1>1. Init => Service!Init
  BY DEF Init, Service!Init, Service!NoAnswer
<1>2. QED
  BY <1>1, NextRefines, TypeCorrect, PTL DEF Spec
=============================================================================
