------------------------------ MODULE Askpass ------------------------------
(***************************************************************************)
(* One run of the askpass helper: the prompt model, the response callback  *)
(* of main, the SIGTERM handler and the process result.  The callback runs *)
(* inside the dialog's slots.  QGuiApplication::exit only marks the event  *)
(* loop: handlers ready in the same turn still run, and a later exit       *)
(* overrides the status of an earlier one.                                 *)
(***************************************************************************)
EXTENDS PromptModel, Integers

CONSTANT MaxDialogs     \* bound: the user retries only below this generation

VARIABLES mode,      \* askpassMode: what the invocation asks for
          dialog,    \* the AuthenticationPromptModel
          finished,  \* the callback has taken its final response
          exit,      \* status given to the last QGuiApplication::exit, or None
          stdout,    \* how much of the framed secret stdout has received
          accepted,  \* the confirmation the callback took was an acceptance
          sigterm,   \* SIGTERM has been handled
          ended      \* the event loop has returned, the process is over

askpassVars == <<mode, dialog, finished, exit, stdout, accepted, sigterm, ended>>

None == -1
AskpassToken == 1

AskpassTypeOK ==
  /\ mode \in {"Text", "Confirmation", "Notification"}
  /\ dialog \in [life : Lifecycles, mode : InputModes, token : {NoToken, AskpassToken},
                 gen : Nat, identities : SUBSET {}, terminal : BOOLEAN]
  /\ finished \in BOOLEAN
  /\ exit \in {None, 0, 1}
  /\ stdout \in {"empty", "partial", "all", "twice"}
  /\ accepted \in BOOLEAN
  /\ sigterm \in BOOLEAN
  /\ ended \in BOOLEAN

AskpassInit ==
  /\ mode \in {"Text", "Confirmation", "Notification"}
  /\ dialog = BeginRequest(IdlePrompt, AskpassToken, {}, mode)
  /\ finished = FALSE
  /\ exit = None
  /\ stdout = "empty"
  /\ accepted = FALSE
  /\ sigterm = FALSE
  /\ ended = FALSE

----------------------------------------------------------------------------
\* Mutant: success whatever the answer.
FinishSucceeds(m, code) ==
  /\ finished' = TRUE
  /\ dialog' = Complete(m)
  /\ exit' = 0

\* The end of the callback: the model being m, the process will exit with code.
Finish(m, code) ==
  /\ finished' = TRUE
  /\ dialog' = Complete(m)
  /\ exit' = code

\* respond with a text validateSecret accepts: writeProtocolSecret writes the
\* bytes and one LF, or fails after any part of them.
RespondValid ==
  /\ ~ended
  /\ CanRespond(dialog)
  /\ ~finished
  /\ \/ /\ stdout' = IF stdout = "empty" THEN "all" ELSE "twice"
        /\ Finish(MarkBusy(dialog), 0)
     \/ /\ stdout' \in {stdout, "partial"}
        /\ Finish(MarkBusy(dialog), 1)
  /\ UNCHANGED <<mode, accepted, sigterm, ended>>

\* respond with a text validateSecret rejects: the dialog stays open.
RespondInvalid ==
  /\ ~ended
  /\ CanRespond(dialog)
  /\ ~finished
  /\ dialog' = MarkRetryableError(MarkBusy(dialog))
  /\ UNCHANGED <<mode, finished, exit, stdout, accepted, sigterm, ended>>

\* retry: the model turns Busy and the callback presents the prompt again.
Retry ==
  /\ ~ended
  /\ CanRetry(dialog)
  /\ ~finished
  /\ dialog.gen < MaxDialogs
  /\ dialog' = PresentPrompt(Retried(dialog), mode)
  /\ UNCHANGED <<mode, finished, exit, stdout, accepted, sigterm, ended>>

Confirm(yes) ==
  /\ ~ended
  /\ CanConfirm(dialog)
  /\ ~finished
  /\ accepted' = yes
  /\ Finish(MarkBusy(dialog), IF yes THEN 0 ELSE 1)
  /\ UNCHANGED <<mode, stdout, sigterm, ended>>

\* acknowledge and cancel fall into the callback's last branch.  The dialog has
\* no control for acknowledge; only the build with tests calls it.
Acknowledge ==
  /\ ~ended
  /\ CanAcknowledge(dialog)
  /\ ~finished
  /\ Finish(MarkBusy(dialog), 1)
  /\ UNCHANGED <<mode, stdout, accepted, sigterm, ended>>

Cancel ==
  /\ ~ended
  /\ CanCancel(dialog)
  /\ ~finished
  /\ Finish(Dismiss(dialog), 1)
  /\ UNCHANGED <<mode, stdout, accepted, sigterm, ended>>

\* The SIGTERM notifier: shutdown cancels an open dialog through the callback,
\* then the handler sets the exit status itself.
Terminate ==
  /\ ~ended
  /\ ~sigterm
  /\ sigterm' = TRUE
  /\ finished' = (finished \/ IsActive(dialog))
  /\ dialog' = Dismiss(dialog)
  /\ exit' = IF mode = "Notification" THEN 0 ELSE 1
  /\ UNCHANGED <<mode, stdout, accepted, ended>>

\* The event loop returns at the end of the turn in which exit was called.
End ==
  /\ ~ended
  /\ exit # None
  /\ ended' = TRUE
  /\ UNCHANGED <<mode, dialog, finished, exit, stdout, accepted, sigterm>>

AskpassNext ==
  \/ RespondValid \/ RespondInvalid \/ Retry
  \/ \E yes \in BOOLEAN : Confirm(yes)
  \/ Acknowledge \/ Cancel \/ Terminate \/ End

AskpassSpec == AskpassInit /\ [][AskpassNext]_askpassVars

----------------------------------------------------------------------------
\* What the mode asks for has come: the whole framed secret is written, the user
\* has accepted, or the caller has ended a notification.
Earned ==
  CASE mode = "Text" -> stdout = "all"
    [] mode = "Confirmation" -> accepted
    [] mode = "Notification" -> sigterm

\* SIGTERM was handled, in the turn of the answer or before any: outside of
\* notification mode its handler sets 1 whatever the answer was.
Overridden == sigterm /\ mode # "Notification"

\* The status is 0 exactly for what the mode asks for, so that an acceptance or a
\* written secret is never reported as a refusal nor the other way round, in
\* whatever order the handlers of the last turn ran; but after a SIGTERM it is 1.
StatusIsTheAnswer == ended => IF Overridden THEN exit = 1 ELSE exit = 0 <=> Earned

\* stdout belongs to the caller's protocol: a single framed secret, in secret mode.
StdoutIsProtocol ==
  /\ stdout # "twice"
  /\ stdout # "empty" => mode = "Text" /\ finished

\* An open dialog takes an answer: no invalid response or retry wedges it.
DialogTakesAnswers ==
  exit = None =>
    CanRespond(dialog) \/ CanRetry(dialog) \/ CanConfirm(dialog) \/ CanAcknowledge(dialog)

\* What the caller of the helper sees, its status and its output, is what the
\* user answered in a dialog that always takes an answer, but for the status after
\* a SIGTERM.
AskpassIsHonest == AskpassTypeOK /\ StatusIsTheAnswer /\ StdoutIsProtocol /\ DialogTakesAnswers
=============================================================================
