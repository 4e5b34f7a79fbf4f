----------------------------- MODULE Workspace -----------------------------
(***************************************************************************)
(* The application around the pages (web/src/App.tsx, with BetaGate.tsx,   *)
(* ConfirmModal.tsx and api.ts): signing in and out, what the page shows   *)
(* of whom, and commands that are previewed, approved or cancelled.        *)
(*                                                                         *)
(* React state outlives a session: signing out resets it, but what is on   *)
(* its way then sets it when it arrives, except for the first loads of a   *)
(* session, whose effect is cancelled (`active`).  The server is seen      *)
(* through one window of one browser; Approval.tla has the rest of it.     *)
(***************************************************************************)
EXTENDS Naturals, FiniteSets

CONSTANTS
    Users,
    Approvals,   \* approvalIds
    MaxOnWay,    \* bound: requests on their way at the same time
    Nobody

ASSUME WorkspaceAssumption == Nobody \notin Users \union Approvals

VARIABLES
    user,        \* whose token the page has
    starting,    \* sessionLoading
    shows,       \* [Views -> whose data the page has]
    loading,     \* connectionsLoading
    dialog,      \* preview: the approval in ConfirmModal
    busy,        \* commandBusy
    onWay,       \* requests, until their answer is there
    approvals,   \* ApprovalStore
    pressed,     \* history: who approved what
    told,        \* history of commands, as the page lists it
    strays       \* history: something of an earlier session may still show

pageVars == <<user, starting, shows, loading, dialog, busy>>
recordVars == <<pressed, told>>
workspaceVars == <<pageVars, onWay, approvals, recordVars, strays>>

Views == {"account", "catalog", "connections"}
Commands == {"preview", "approve", "cancel"}
Whom == Users \union {Nobody}
NothingShown == [v \in Views |-> Nobody]

\* heard: the page still waits for the answer.
OnWay == [op : Views \union Commands, by : Users, id : Approvals \union {Nobody},
          heard : BOOLEAN, answer : {"none", "yes", "no"}]

WorkspaceTypeOK ==
    /\ user \in Whom
    /\ starting \in BOOLEAN /\ loading \in BOOLEAN /\ busy \in BOOLEAN /\ strays \in BOOLEAN
    /\ shows \in [Views -> Whom]
    /\ dialog \in Approvals \union {Nobody}
    /\ onWay \subseteq OnWay
    /\ approvals \in [Approvals -> [by : Whom, pending : BOOLEAN, executions : 0..1]]
    /\ pressed \subseteq Approvals \X Users
    /\ told \in [Approvals -> {"nothing", "done", "cancelled"}]

\* The page opens with the token of sessionStorage, or without one.
WorkspaceInit ==
    /\ user \in Whom /\ starting = (user # Nobody)
    /\ shows = NothingShown /\ loading = FALSE /\ dialog = Nobody /\ busy = FALSE
    /\ onWay = {}
    /\ approvals = [i \in Approvals |-> [by |-> Nobody, pending |-> FALSE, executions |-> 0]]
    /\ pressed = {} /\ told = [i \in Approvals |-> "nothing"]
    /\ strays = FALSE

-----------------------------------------------------------------------------
\* The page is there to be used, not the gate and not the loading screen.
Usable == user # Nobody /\ ~starting

Heard(calls) == {c \in calls : c.heard}

Send(op, id) ==
    /\ Cardinality(onWay) < MaxOnWay
    /\ onWay' = onWay \union {[op |-> op, by |-> user, id |-> id, heard |-> TRUE, answer |-> "none"]}

(***************************************************************************)
(* Sessions                                                                *)
(***************************************************************************)
\* BetaGate and handleLogin: the data comes with the token, and the effect of
\* the new token loads it again.
SignIn(u) ==
    /\ user = Nobody
    /\ user' = u /\ starting' = TRUE
    /\ shows' = [shows EXCEPT !["account"] = u, !["catalog"] = u]
    /\ UNCHANGED <<loading, dialog, busy, onWay, approvals, recordVars, strays>>

FirstLoads ==
    /\ starting
    /\ starting' = FALSE
    /\ shows' = [shows EXCEPT !["account"] = user, !["catalog"] = user]
    /\ UNCHANGED <<user, loading, dialog, busy, onWay, approvals, recordVars, strays>>

\* Any of the three fails: back to the gate, with the rest of the state as it is.
FirstLoadsFail ==
    /\ starting
    /\ starting' = FALSE /\ user' = Nobody
    /\ shows' = [shows EXCEPT !["account"] = Nobody]
    /\ strays' = (strays \/ Heard(onWay) # {} \/ shows["connections"] # Nobody)
    /\ UNCHANGED <<loading, dialog, busy, onWay, approvals, recordVars>>

\* Mutant: signing out forgets to reset marketConnections.
SignOutKeeps ==
    /\ Usable
    /\ user' = Nobody
    /\ shows' = [NothingShown EXCEPT !["connections"] = shows["connections"]] /\ dialog' = Nobody
    /\ strays' = (Heard(onWay) # {})
    /\ UNCHANGED <<starting, loading, busy, onWay, approvals, recordVars>>

\* logout, which does not tell the server
SignOut ==
    /\ Usable
    /\ user' = Nobody
    /\ shows' = NothingShown /\ dialog' = Nobody
    /\ strays' = (Heard(onWay) # {})
    /\ UNCHANGED <<starting, loading, busy, onWay, approvals, recordVars>>

\* The browser loads the page again; a command on its way is still carried out.
ReloadPage ==
    /\ starting' = (user # Nobody)
    /\ shows' = NothingShown /\ loading' = FALSE /\ dialog' = Nobody /\ busy' = FALSE
    /\ onWay' = {[c EXCEPT !.heard = FALSE] : c \in {c \in onWay : c.op \in Commands /\ c.answer = "none"}}
    /\ strays' = FALSE
    /\ UNCHANGED <<user, approvals, recordVars>>

(***************************************************************************)
(* What the page shows                                                     *)
(***************************************************************************)
\* loadConnections: by its effect, which runs behind the loading screen too,
\* by the button, and after a change
AskConnections ==
    /\ Usable \/ (user # Nobody /\ shows["connections"] = Nobody /\ ~loading)
    /\ Send("connections", Nobody)
    /\ loading' = TRUE
    /\ UNCHANGED <<user, starting, shows, dialog, busy, approvals, recordVars, strays>>

\* refreshCatalog after a change, and the account after a payment is confirmed
AskAgain(view) ==
    /\ Usable
    /\ Send(view, Nobody)
    /\ UNCHANGED <<pageVars, approvals, recordVars, strays>>

\* The answer is shown, whoever is signed in by now; or the request fails.
ViewAnswers(c, fails) ==
    /\ c.heard /\ c.op \in Views
    /\ onWay' = onWay \ {c}
    /\ shows' = IF fails THEN shows ELSE [shows EXCEPT ![c.op] = c.by]
    /\ loading' = (loading /\ c.op # "connections")
    /\ UNCHANGED <<user, starting, dialog, busy, approvals, recordVars, strays>>

(***************************************************************************)
(* Commands                                                                *)
(***************************************************************************)
\* submitCommand; the dialog covers the command line.
Submit ==
    /\ Usable /\ ~busy /\ dialog = Nobody
    /\ Send("preview", Nobody)
    /\ busy' = TRUE
    /\ UNCHANGED <<user, starting, shows, loading, dialog, approvals, recordVars, strays>>

\* confirmCommand and cancelCommand
Press(op) ==
    /\ Usable /\ ~busy /\ dialog # Nobody
    /\ Send(op, dialog)
    /\ busy' = TRUE
    /\ pressed' = IF op = "approve" THEN pressed \union {<<dialog, user>>} ELSE pressed
    /\ UNCHANGED <<user, starting, shows, loading, dialog, approvals, told, strays>>

\* A page that no longer waits gets no answer.
Reply(c, id, answer) ==
    onWay' = (onWay \ {c}) \union
             (IF c.heard THEN {[c EXCEPT !.id = id, !.answer = answer]} ELSE {})

\* The preview handler and ApprovalStore.create
PreviewMade(c, i) ==
    /\ c.op = "preview" /\ c.answer = "none"
    /\ approvals[i].by = Nobody
    /\ approvals' = [approvals EXCEPT ![i] = [@ EXCEPT !.by = c.by, !.pending = TRUE]]
    /\ Reply(c, i, "yes")
    /\ UNCHANGED <<pageVars, recordVars, strays>>

\* consume and cancel: still there, and of the same actor
Granted(c) == approvals[c.id].pending /\ approvals[c.id].by = c.by

\* An execution that throws is answered with an error.
Decided(c) ==
    /\ c.op \in {"approve", "cancel"} /\ c.answer = "none" /\ Granted(c)
    /\ approvals' = [approvals EXCEPT ![c.id].pending = FALSE,
                                      ![c.id].executions = @ + (IF c.op = "approve" THEN 1 ELSE 0)]
    /\ \E answer \in {"yes", "no"} :
        /\ c.op = "cancel" => answer = "yes"
        /\ Reply(c, c.id, answer)
    /\ UNCHANGED <<pageVars, recordVars, strays>>

\* Nothing to preview, nothing to decide (410), or no session
Declined(c) ==
    /\ c.op \in Commands /\ c.answer = "none"
    /\ c.op # "preview" => ~Granted(c)
    /\ Reply(c, c.id, "no")
    /\ UNCHANGED <<pageVars, approvals, recordVars, strays>>

Expires(i) ==
    /\ approvals[i].pending
    /\ approvals' = [approvals EXCEPT ![i].pending = FALSE]
    /\ UNCHANGED <<pageVars, onWay, recordVars, strays>>

\* The handler's await ends.  A preview opens the dialog, an execution or a
\* cancellation closes it and is listed; a cancellation that fails closes it too.
CommandAnswered(c) ==
    /\ c.heard /\ c.answer # "none"
    /\ onWay' = onWay \ {c}
    /\ busy' = FALSE
    /\ dialog' = CASE c.op = "preview" /\ c.answer = "yes" -> c.id
                   [] c.op = "cancel" \/ (c.op = "approve" /\ c.answer = "yes") -> Nobody
                   [] OTHER -> dialog
    /\ told' = CASE c.op = "approve" /\ c.answer = "yes" -> [told EXCEPT ![c.id] = "done"]
                 [] c.op = "cancel" /\ c.answer = "yes" -> [told EXCEPT ![c.id] = "cancelled"]
                 [] OTHER -> told
    /\ UNCHANGED <<user, starting, shows, loading, approvals, pressed, strays>>

\* fetch rejects, while the request may still reach the server.
CommandLost(c) ==
    /\ c.heard /\ c.op \in Commands
    /\ onWay' = (onWay \ {c}) \union (IF c.answer = "none" THEN {[c EXCEPT !.heard = FALSE]} ELSE {})
    /\ busy' = FALSE
    /\ dialog' = IF c.op = "cancel" THEN Nobody ELSE dialog
    /\ UNCHANGED <<user, starting, shows, loading, approvals, recordVars, strays>>

-----------------------------------------------------------------------------
Sessions == FirstLoads \/ FirstLoadsFail \/ SignOut \/ ReloadPage \/ \E u \in Users : SignIn(u)

Looks ==
    \/ AskConnections \/ \E view \in {"account", "catalog"} : AskAgain(view)
    \/ \E c \in onWay, fails \in BOOLEAN : ViewAnswers(c, fails)

Orders ==
    \/ Submit \/ \E op \in {"approve", "cancel"} : Press(op)
    \/ \E c \in onWay :
        \/ Decided(c) \/ Declined(c) \/ CommandAnswered(c) \/ CommandLost(c)
        \/ \E i \in Approvals : PreviewMade(c, i)
    \/ \E i \in Approvals : Expires(i)

WorkspaceNext == Sessions \/ Looks \/ Orders

WorkspaceSpec == WorkspaceInit /\ [][WorkspaceNext]_workspaceVars

-----------------------------------------------------------------------------
(***************************************************************************)
(* Property                                                                *)
(***************************************************************************)
\* A command is executed at most once, and only if the one who had asked for
\* its preview approved it, although the dialog may outlive its session.
\* What the page lists as done was executed, and what it lists as cancelled
\* never is, whatever was lost before ("nothing is written to any market before
\* it is approved on this screen", ConfirmModal.tsx:20).
ExecutedAsApproved ==
    \A i \in Approvals :
        /\ approvals[i].executions <= 1
        /\ approvals[i].executions = 1 => <<i, approvals[i].by>> \in pressed
        /\ told[i] = "done" => approvals[i].executions = 1
        /\ told[i] = "cancelled" => approvals[i].executions = 0

\* The page shows data, and a dialog, of the one who is signed in, unless an
\* earlier session ended before its answers were there, or in its first loads.
ScreenIsOwn ==
    user # Nobody /\ ~strays =>
        /\ \A v \in Views : shows[v] \in {user, Nobody}
        /\ dialog # Nobody => approvals[dialog].by = user

PageIsTruthful == ExecutedAsApproved /\ ScreenIsOwn
=============================================================================
