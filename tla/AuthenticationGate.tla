-------------------------- MODULE AuthenticationGate --------------------------
(***************************************************************************)
(* The sign-in dialog of app/authentication-gate.tsx, with the helpers of  *)
(* lib/client-line-auth-lifecycle.ts.  One page, one dialog that blocks    *)
(* the page while an attempt is under way; attempts by passkey, by a LINE  *)
(* window or by taking this tab to LINE.  What an attempt awaits (requests *)
(* of twelve seconds at most, the authenticator, the LINE window, timers)  *)
(* may come back when the attempt is no longer the current one.            *)
(*                                                                         *)
(* A generation is the number of the attempt that took it, 0 once it is    *)
(* invalidated.                                                            *)
(***************************************************************************)
EXTENDS Integers, FiniteSets

CONSTANTS Attempts \* bound of the model: 1 .. the attempts ever begun

VARIABLES
    open, settled,
    signedIn,  \* what the server would say
    away,      \* the page is hidden in the history
    busy,      \* busyRef
    passkey,   \* the passkey generation
    line,      \* the LINE generation
    run,       \* what each attempt awaits
    popup,     \* the LINE window: whose, closed by the person, waited for in full
    said,      \* results the LINE windows will post or have posted, per attempt
    tab,       \* lineSameTabNavigationRef: whose, and committed
    recovery,  \* the armed recovery timer: whose
    asking,    \* refreshes of the sign-in in flight: their guard and answer
    begun

gvars == <<open, settled, signedIn, away, busy, passkey, line, run, popup, said, tab, recovery, asking, begun>>

NoPopup == [of |-> 0, closed |-> FALSE, overdue |-> FALSE]
NoTab == [of |-> 0, committed |-> FALSE]
Guard(how, i) == [how |-> how, of |-> i]
Any == Guard("any", 0)

Init ==
    /\ open = TRUE /\ settled = FALSE /\ signedIn = FALSE /\ away = FALSE
    /\ busy = "none" /\ passkey = 0 /\ line = 0
    /\ run = [i \in Attempts |-> "new"]
    /\ popup = NoPopup
    /\ said = [i \in Attempts |-> "nothing"]
    /\ tab = NoTab /\ recovery = 0
    /\ asking = {}
    /\ begun = 0

IsLine(i) == open /\ i # 0 /\ line = i
\* Mutant: the generation is not compared.
IsPasskeyOfAny(i) == open /\ i # 0

IsPasskey(i) == open /\ i # 0 /\ passkey = i

\* invalidateLineAttempt, invalidatePasskeyAttempt.
DropLine == line' = 0 /\ popup' = NoPopup /\ tab' = NoTab /\ recovery' = 0
DropPasskey == passkey' = 0
Rest(i) == run' = [run EXCEPT ![i] = "done"]
LineAsIs == UNCHANGED <<line, popup, tab, recovery>>

-------------------------------------------------------------------------------
(* refreshAuthentication: the answer counts while its guard holds.          *)

Ask(guard) == asking' = asking \cup {[guard |-> guard, yes |-> signedIn]}

Holds(guard) ==
    \/ guard = Any
    \/ guard.how \in {"poll", "result", "return"} /\ IsLine(guard.of)
    \/ guard.how = "passkey" /\ IsPasskey(guard.of)

\* The dialog has done its part; its owner closes it.
Settle ==
    /\ settled' = TRUE /\ open' = FALSE
    /\ DropLine /\ DropPasskey

\* Mutant: only a window that was closed ends the wait.
MustStopClosed == popup.closed /\ popup.overdue

\* Two and a half seconds after the window closed, or ten minutes in all.
MustStop == popup.overdue

\* Of a refresh that says the sign-in is not complete, or that fails: the poll
\* gives up on failure and at the end of the wait, a return to the tab and a
\* passkey give up on both.
GivesUp(guard, failed) ==
    \/ guard.how = "poll" /\ (failed \/ MustStop)
    \/ guard.how \in {"return", "passkey"}

Answer(a, failed) ==
    /\ a \in asking /\ asking' = asking \ {a} /\ ~away
    /\ IF ~open \/ ~Holds(a.guard) THEN UNCHANGED <<open, settled, busy, passkey, line, popup, tab, recovery>>
       ELSE IF a.yes /\ ~failed THEN Settle /\ UNCHANGED busy
       ELSE /\ UNCHANGED <<open, settled>>
            /\ IF GivesUp(a.guard, failed)
                 THEN /\ busy' = "none"
                      /\ IF a.guard.how = "passkey" THEN DropPasskey /\ LineAsIs
                                                   ELSE DropLine /\ UNCHANGED passkey
                 ELSE UNCHANGED <<busy, passkey, line, popup, tab, recovery>>
    /\ UNCHANGED <<signedIn, away, run, said, begun>>

Focus ==
    /\ open /\ ~away
    /\ Ask(Any)
    /\ UNCHANGED <<open, settled, signedIn, away, busy, passkey, line, run, popup, said, tab, recovery, begun>>

-------------------------------------------------------------------------------
(* Passkeys: runGuardedAuthenticationSequence.                              *)

Claim(i, what) ==
    /\ open /\ ~away /\ busy = "none" /\ i = begun + 1
    /\ busy' = what /\ begun' = i

BeginPasskey(i) ==
    /\ Claim(i, "passkey")
    /\ passkey' = i
    /\ run' = [run EXCEPT ![i] = "context"]
    /\ LineAsIs
    /\ UNCHANGED <<open, settled, signedIn, away, said, asking>>

After == [context |-> "options", options |-> "credential", credential |-> "verify"]

\* Each await ends with a result, when the sequence goes on, or a failure.
PasskeyGoesOn(i) ==
    /\ run[i] \in DOMAIN After /\ ~away
    /\ run' = [run EXCEPT ![i] = IF IsPasskey(i) THEN After[run[i]] ELSE "done"]
    /\ UNCHANGED <<open, settled, signedIn, away, busy, passkey, line, popup, said, tab, recovery, asking, begun>>

PasskeyFails(i) ==
    /\ run[i] \in {"context", "options", "credential", "verify"} /\ ~away
    /\ Rest(i)
    /\ IF IsPasskey(i) THEN busy' = "none" /\ DropPasskey ELSE UNCHANGED <<busy, passkey>>
    /\ LineAsIs
    /\ UNCHANGED <<open, settled, signedIn, away, said, asking, begun>>

PasskeyVerified(i) ==
    /\ run[i] = "verify" /\ ~away
    /\ signedIn' = TRUE
    /\ Rest(i)
    /\ IF IsPasskey(i) THEN asking' = asking \cup {[guard |-> Guard("passkey", i), yes |-> TRUE]} ELSE UNCHANGED asking
    /\ UNCHANGED <<open, settled, away, busy, passkey, line, popup, said, tab, recovery, begun>>

\* Five minutes, or the person's wish.
StopPasskey ==
    /\ passkey # 0 /\ open /\ ~away
    /\ DropPasskey /\ busy' = "none"
    /\ LineAsIs
    /\ UNCHANGED <<open, settled, signedIn, away, run, said, asking, begun>>

-------------------------------------------------------------------------------
(* LINE in a window of its own.                                             *)

BeginPopup(i) ==
    /\ Claim(i, "line")
    /\ line' = i /\ popup' = [NoPopup EXCEPT !.of = i]
    /\ run' = [run EXCEPT ![i] = "popupContext"]
    /\ tab' = NoTab /\ recovery' = 0
    /\ UNCHANGED <<open, settled, signedIn, away, passkey, said, asking>>

\* A blocked window, in the editor: the attempt ends and offers this tab.
PopupBlocked(i) ==
    /\ open /\ ~away /\ busy = "none" /\ i = begun + 1
    /\ begun' = i
    /\ Rest(i) /\ DropLine
    /\ UNCHANGED <<open, settled, signedIn, away, busy, passkey, said, asking>>

\* The trial is ready, or cannot be made and the attempt ends, or the window
\* was closed meanwhile; else it goes to LINE.
PopupPrepared(i, ok) ==
    /\ run[i] = "popupContext" /\ ~away
    /\ IF ~IsLine(i) THEN Rest(i) /\ LineAsIs /\ UNCHANGED <<busy, said>>
       ELSE IF ok /\ ~popup.closed
         THEN Rest(i) /\ said' = [said EXCEPT ![i] = "awaited"] /\ LineAsIs /\ UNCHANGED busy
         ELSE Rest(i) /\ DropLine /\ busy' = "none" /\ UNCHANGED said
    /\ UNCHANGED <<open, settled, signedIn, away, passkey, asking, begun>>

\* When the window cannot be sent to LINE, this tab is.
PopupCannotMove(i) ==
    /\ run[i] = "popupContext" /\ ~away /\ IsLine(i) /\ ~popup.closed
    /\ popup' = NoPopup
    /\ tab' = [of |-> i, committed |-> FALSE] /\ recovery' = i
    /\ run' = [run EXCEPT ![i] = "tabContext"]
    /\ UNCHANGED <<open, settled, signedIn, away, busy, passkey, line, said, asking, begun>>

\* At LINE: a result posted by the page of the callback, before or after the
\* window is closed; or nothing at all.
LineSays(i) ==
    /\ said[i] = "awaited"
    /\ \E r \in {"succeeded", "failed"} :
          /\ said' = [said EXCEPT ![i] = r]
          /\ signedIn' = (signedIn \/ r = "succeeded")
    /\ UNCHANGED <<open, settled, away, busy, passkey, line, run, popup, tab, recovery, asking, begun>>

CloseWindow ==
    /\ popup.of # 0 /\ ~popup.closed
    /\ popup' = [popup EXCEPT !.closed = TRUE]
    /\ UNCHANGED <<open, settled, signedIn, away, busy, passkey, line, run, said, tab, recovery, asking, begun>>

Overdue ==
    /\ popup.of # 0 /\ ~popup.overdue
    /\ popup' = [popup EXCEPT !.overdue = TRUE]
    /\ UNCHANGED <<open, settled, signedIn, away, busy, passkey, line, run, said, tab, recovery, asking, begun>>

\* handleLinePopupResult: only of the flow of the window there is.
OfThisFlow(i) == popup.of = i

HandleResult(i) ==
    /\ said[i] \in {"succeeded", "failed"} /\ ~away
    /\ said' = [said EXCEPT ![i] = "heard"]
    /\ IF ~(OfThisFlow(i) /\ IsLine(line)) THEN LineAsIs /\ UNCHANGED <<busy, asking>>
       ELSE IF said[i] = "succeeded"
         THEN Ask(Guard("result", line)) /\ LineAsIs /\ UNCHANGED busy
         ELSE DropLine /\ busy' = "none" /\ UNCHANGED asking
    /\ UNCHANGED <<open, settled, signedIn, away, passkey, run, begun>>

\* checkPopup, every half second, one at a time: a window that is closed or
\* has succeeded is worth asking the server.
WorthAsking == popup.closed \/ said[line] = "heard"
Polling == popup.of # 0 /\ IsLine(popup.of) /\ ~away /\ \A a \in asking : a.guard # Guard("poll", line)

Poll ==
    /\ Polling /\ WorthAsking
    /\ Ask(Guard("poll", line))
    /\ UNCHANGED <<open, settled, signedIn, away, busy, passkey, line, run, popup, said, tab, recovery, begun>>

StopWaiting ==
    /\ Polling /\ ~WorthAsking /\ MustStop
    /\ DropLine /\ busy' = "none"
    /\ UNCHANGED <<open, settled, signedIn, away, passkey, run, said, asking, begun>>

-------------------------------------------------------------------------------
(* LINE in this tab.                                                        *)

BeginTab(i) ==
    /\ Claim(i, "line")
    /\ line' = i /\ popup' = NoPopup
    /\ tab' = [of |-> i, committed |-> FALSE] /\ recovery' = i
    /\ run' = [run EXCEPT ![i] = "tabContext"]
    /\ UNCHANGED <<open, settled, signedIn, away, passkey, said, asking>>

TabPrepared(i, ok) ==
    /\ run[i] = "tabContext" /\ ~away
    /\ IF ~IsLine(i) THEN Rest(i) /\ LineAsIs /\ UNCHANGED busy
       ELSE IF ok THEN run' = [run EXCEPT ![i] = "leaving"] /\ LineAsIs /\ UNCHANGED busy
       ELSE Rest(i) /\ DropLine /\ busy' = "none"
    /\ UNCHANGED <<open, settled, signedIn, away, passkey, said, asking, begun>>

\* Ten seconds after the start, or one after an unload that did not follow.
Pending(i) == IsLine(i) /\ tab.of = i /\ ~tab.committed
Recover ==
    /\ recovery # 0 /\ ~away
    /\ IF Pending(recovery) THEN DropLine /\ busy' = "none"
                            ELSE recovery' = 0 /\ UNCHANGED <<line, popup, tab, busy>>
    /\ UNCHANGED <<open, settled, signedIn, away, passkey, run, said, asking, begun>>

\* pagehide: the tab goes to LINE, although its attempt may have been given up.
Leave(i) ==
    /\ run[i] = "leaving" /\ ~away
    /\ Rest(i) /\ away' = TRUE
    /\ IF Pending(tab.of) THEN tab' = [tab EXCEPT !.committed = TRUE] /\ recovery' = 0
                          ELSE UNCHANGED <<tab, recovery>>
    /\ IF passkey # 0 THEN DropPasskey /\ busy' = "none" ELSE UNCHANGED <<passkey, busy>>
    /\ UNCHANGED <<open, settled, signedIn, line, popup, said, asking, begun>>

\* pageshow of a page kept in the history.
Return ==
    /\ away /\ away' = FALSE
    /\ signedIn' \in {signedIn, TRUE}
    /\ IF tab.committed /\ IsLine(tab.of)
         THEN /\ tab' = NoTab /\ recovery' = 0
              /\ asking' = asking \cup {[guard |-> Guard("return", line), yes |-> signedIn']}
         ELSE UNCHANGED <<tab, recovery, asking>>
    /\ UNCHANGED <<open, settled, busy, passkey, line, run, popup, said, begun>>

-------------------------------------------------------------------------------
\* The button that closes the dialog is disabled while an attempt is under way.
Close ==
    /\ open /\ ~away /\ busy = "none"
    /\ open' = FALSE
    /\ DropLine /\ DropPasskey
    /\ UNCHANGED <<settled, signedIn, away, busy, run, said, asking, begun>>

Reopen ==
    /\ ~open /\ ~away /\ begun < Cardinality(Attempts)
    /\ open' = TRUE /\ settled' = FALSE /\ busy' = "none"
    /\ signedIn' = FALSE
    /\ asking' = {[guard |-> Any, yes |-> FALSE]}
    /\ DropLine /\ DropPasskey
    /\ UNCHANGED <<away, run, said, begun>>

\* What comes by itself: answers within twelve seconds and timers, not the
\* authenticator, the LINE window or the history.
Continues(i) ==
    \/ PasskeyGoesOn(i) \/ PasskeyFails(i) \/ PasskeyVerified(i)
    \/ \E ok \in BOOLEAN : PopupPrepared(i, ok) \/ TabPrepared(i, ok)
Answers == \E a \in asking, failed \in BOOLEAN : Answer(a, failed)
AnswersOf(how) == \E a \in asking, failed \in BOOLEAN : a.guard.how = how /\ Answer(a, failed)

Next ==
    \/ Answers \/ StopPasskey \/ Overdue \/ Poll \/ StopWaiting \/ Recover
    \/ \E i \in Attempts : Continues(i) \/ BeginPasskey(i) \/ BeginPopup(i) \/ PopupBlocked(i) \/ BeginTab(i)
                           \/ PopupCannotMove(i) \/ LineSays(i) \/ HandleResult(i) \/ Leave(i)
    \/ Focus \/ CloseWindow \/ Return \/ Close \/ Reopen

Fairness ==
    /\ \A i \in Attempts : WF_gvars(run[i] # "credential" /\ Continues(i))
    /\ WF_gvars(StopPasskey)
    /\ \A how \in {"poll", "return", "passkey"} : WF_gvars(AnswersOf(how))
    /\ WF_gvars(Overdue) /\ WF_gvars(Poll) /\ WF_gvars(StopWaiting)
    /\ WF_gvars(Recover)

Spec == Init /\ [][Next]_gvars /\ Fairness

-------------------------------------------------------------------------------
TypeOK ==
    /\ busy \in {"none", "passkey", "line"}
    /\ line \in Attempts \cup {0} /\ passkey \in Attempts \cup {0}
    /\ recovery \in Attempts \cup {0} /\ popup.of \in Attempts \cup {0}

\* The dialog is blocked exactly while it has an attempt: no current attempt
\* without the block, and no block that nobody is left to lift.
BlockedByItsAttempt ==
    /\ passkey = 0 \/ line = 0
    /\ open /\ ~settled =>
          /\ busy = "line" <=> line # 0
          /\ passkey # 0 => busy = "passkey"
          /\ busy = "passkey" => passkey # 0
    /\ line = 0 => popup = NoPopup /\ tab = NoTab /\ recovery = 0

\* No attempt blocks the page for good, whatever LINE or the network leave
\* unanswered: it ends, or the page is left for LINE, and again once it is back.
NeverStuck == busy # "none" /\ open /\ ~away ~> busy = "none" \/ ~open \/ away
===============================================================================
