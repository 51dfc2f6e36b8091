---------------------------- MODULE PromptModel ----------------------------
(***************************************************************************)
(* AuthenticationPromptModel: the state behind the authentication dialog.  *)
(* Both front ends (the polkit agent and the askpass helper) drive one     *)
(* instance of it by synchronous calls, often several calls in one event   *)
(* handler, so the model is a record and every method is an operator from  *)
(* record to record; a refused call returns its argument.                  *)
(*                                                                         *)
(* Abstracted: texts, messages and the signals that repaint the dialog.    *)
(* callback_ is not a field: it is set by beginRequest and cleared only by *)
(* complete and clearRequest, which leave an inactive model, and deliver   *)
(* is reached only from an active one.                                     *)
(***************************************************************************)
EXTENDS Naturals, FiniteSets

\* Request tokens are the positive numbers receive hands out; 0 is the empty one.
NoToken == 0

Lifecycles == {"Idle", "SelectingIdentity", "AwaitingInput", "Busy",
               "RetryableError", "Completed", "Cancelled"}

\* InputMode; Text stands for Secret and Visible, which only differ in echo.
InputModes == {"None", "Text", "Confirmation", "Notification"}

IdlePrompt ==
  [life |-> "Idle", mode |-> "None", token |-> NoToken, gen |-> 0,
   identities |-> {}, terminal |-> FALSE]

IsActive(m) ==
  m.life \in {"SelectingIdentity", "AwaitingInput", "Busy", "RetryableError"}

\* clearRequest: forgets the request, keeps the generation counter.
ClearRequest(m) ==
  [m EXCEPT !.mode = "None", !.token = NoToken, !.identities = {}, !.terminal = FALSE]

\* beginRequest returns false on an active model; callers test IsActive first.
BeginRequest(m, t, ids, mode) ==
  [life |-> IF Cardinality(ids) > 1 THEN "SelectingIdentity" ELSE "AwaitingInput",
   mode |-> mode, token |-> t, gen |-> m.gen + 1, identities |-> ids,
   terminal |-> FALSE]

PresentPrompt(m, mode) ==
  IF m.life \in {"Busy", "AwaitingInput"}
    THEN [m EXCEPT !.mode = mode, !.life = "AwaitingInput"]
    ELSE m

MarkBusy(m) ==
  IF m.life \in {"AwaitingInput", "SelectingIdentity"}
    THEN [m EXCEPT !.life = "Busy"]
    ELSE m

MarkRetryableError(m) ==
  IF m.life \in {"Busy", "AwaitingInput"}
    THEN [m EXCEPT !.life = "RetryableError"]
    ELSE m

\* Mutant: only a dialog without a prompt is completed.
CompleteBusy(m) ==
  IF m.life = "Busy" /\ ~m.terminal
    THEN [m EXCEPT !.terminal = TRUE, !.life = "Completed"]
    ELSE m

Complete(m) ==
  IF IsActive(m) /\ ~m.terminal
    THEN [m EXCEPT !.terminal = TRUE, !.life = "Completed"]
    ELSE m

Reset(m) ==
  IF IsActive(m) THEN m ELSE [ClearRequest(m) EXCEPT !.life = "Idle"]

\* What cancel and shutdown leave before they deliver Cancellation.
Dismiss(m) ==
  IF IsActive(m) THEN [m EXCEPT !.terminal = TRUE, !.life = "Cancelled"] ELSE m

\* The guards of the dialog's slots: outside them the slot only reports
\* invalidOperation.
CanRespond(m) == m.life = "AwaitingInput" /\ m.mode = "Text"
CanConfirm(m) == m.life = "AwaitingInput" /\ m.mode = "Confirmation"
CanAcknowledge(m) == m.life = "AwaitingInput" /\ m.mode = "Notification"
CanCancel(m) == IsActive(m) /\ ~m.terminal
CanSelect(m, i) == m.life = "SelectingIdentity" /\ i \in m.identities
CanRetry(m) == m.life = "RetryableError"

\* retry: a new generation, so that callbacks of the failed session are stale.
Retried(m) ==
  [m EXCEPT !.gen = @ + 1,
            !.life = IF Cardinality(m.identities) > 1 THEN "SelectingIdentity" ELSE "Busy"]
============================================================================
