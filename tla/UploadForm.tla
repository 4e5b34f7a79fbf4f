----------------------------- MODULE UploadForm -----------------------------
(***************************************************************************)
(* The page that registers a product (web/src/components/                  *)
(* ProductRegistration.tsx), with its calls through App.tsx and api.ts.    *)
(*                                                                         *)
(* The seller may edit, change tabs, choose another SKU or leave the page  *)
(* while a call is under way: only the buttons that start a call are       *)
(* disabled then, and an answer sets the state of the page whatever it has *)
(* become.  The server is Registration.tla's; here it may answer anything, *)
(* late or never.                                                          *)
(*                                                                         *)
(* The guided fields are one value, a draft; the request text is a record  *)
(* of what has been written into it.                                       *)
(***************************************************************************)
EXTENDS Naturals, FiniteSets

CONSTANTS
    Tabs,     \* marketplaces
    Skus,
    Drafts,   \* what the guided fields, or the request text, may say
    FirstTab, \* the page opens on Naver
    FirstSku, \* and with the first product
    MaxKeys,  \* bound: request identities (newIdempotencyKey)
    Nothing

ASSUME FormAssumption == FirstTab \in Tabs /\ FirstSku \in Skus /\ MaxKeys \in Nat \ {0}

VARIABLES
    tab, sku, draft,  \* selected, masterSku, basics (with options, discount, keywords)
    text,             \* payloadText
    verified,         \* verification: the marketplace it was about, or Nothing
    validated,        \* validation: the text it was about, or Nothing
    confirmed,        \* the box is ticked: for what was on the page then, or Nothing
    result,           \* the key of the request whose success is shown, or Nothing
    key,              \* idempotencyKey
    flight,           \* the call under way; busy while there is one
    mapped,           \* the products the page shows as mapped (alreadyMapped)
    sent              \* history: the requests to register

answerVars == <<verified, validated, confirmed, result>>
formVars == <<tab, sku, draft, text, verified, validated, confirmed, result, key, flight, mapped, sent>>

Content == [draft : Drafts \union {Nothing}, sku : Skus \union {Nothing}, tab : Tabs]
Page == [tab : Tabs, sku : Skus, text : Content]
Call == [op : {"verify", "validate", "register"}, page : Page, key : 1..MaxKeys, left : BOOLEAN]
Idle == Nothing

StarterPayload(t) == [draft |-> Nothing, sku |-> Nothing, tab |-> t]
OnScreen == [tab |-> tab, sku |-> sku, text |-> text]

\* busy belongs to the page the call was started from.
Busy == flight # Idle /\ ~flight.left

FormTypeOK ==
    /\ tab \in Tabs /\ sku \in Skus /\ draft \in Drafts /\ text \in Content
    /\ verified \in Tabs \union {Nothing}
    /\ validated \in Content \union {Nothing}
    /\ confirmed \in Page \union {Nothing}
    /\ key \in 1..MaxKeys /\ result \in 1..key \union {Nothing}
    /\ flight \in Call \union {Idle}
    /\ mapped \subseteq Skus \X Tabs

FormInit ==
    /\ tab = FirstTab /\ sku = FirstSku /\ draft \in Drafts
    /\ text = StarterPayload(FirstTab)
    /\ verified = Nothing /\ validated = Nothing /\ confirmed = Nothing /\ result = Nothing
    /\ key = 1
    /\ flight = Idle
    /\ mapped = {}
    /\ sent = {}

-----------------------------------------------------------------------------
ResetRequestIdentity ==
    /\ key < MaxKeys
    /\ key' = key + 1

\* What a change of the page leaves behind of the answers to the page before it
ForgetAnswers == validated' = Nothing /\ confirmed' = Nothing /\ result' = Nothing

InvalidatePayload == ForgetAnswers /\ ResetRequestIdentity

\* changeBasic, and the handlers of options, discount and keywords
ChangeFields(d) ==
    /\ draft # d
    /\ draft' = d
    /\ InvalidatePayload
    /\ UNCHANGED <<tab, sku, text, verified, flight, mapped, sent>>

\* The advanced editor: any text, or the starter again
EditText(d) ==
    /\ text' = IF d = Nothing THEN StarterPayload(tab) ELSE [text EXCEPT !.draft = d]
    /\ InvalidatePayload
    /\ UNCHANGED <<tab, sku, draft, verified, flight, mapped, sent>>

\* selectMarket: the fields stay, the text starts anew.
SelectMarket(t) ==
    /\ tab' = t
    /\ text' = StarterPayload(t)
    /\ verified' = Nothing
    /\ InvalidatePayload
    /\ UNCHANGED <<sku, draft, flight, mapped, sent>>

\* Mutant: another product keeps the tick that was made for the one before.
SelectKeepsAnswers(s, d) ==
    /\ sku' = s
    /\ draft' = d
    /\ ResetRequestIdentity
    /\ UNCHANGED <<tab, text, answerVars, flight, mapped, sent>>

\* selectProduct: the fields take the product's name, the text stays.
SelectProduct(s, d) ==
    /\ sku' = s
    /\ draft' = d
    /\ InvalidatePayload
    /\ UNCHANGED <<tab, text, verified, flight, mapped, sent>>

\* applyGuidedForm, once checkGuidedForm has passed
ApplyGuidedForm ==
    /\ text' = [text EXCEPT !.draft = draft, !.sku = sku]
    /\ InvalidatePayload
    /\ UNCHANGED <<tab, sku, draft, verified, flight, mapped, sent>>

\* Another page and back: the component starts anew.  A call of the old one has
\* nowhere to put its answer; when the next call begins it is forgotten here, and
\* what it still does to the catalog is CatalogRead.
LeaveAndReturn(d) ==
    /\ tab' = FirstTab /\ sku' = FirstSku /\ draft' = d
    /\ text' = StarterPayload(FirstTab)
    /\ verified' = Nothing
    /\ InvalidatePayload
    /\ flight' = IF flight = Idle THEN Idle ELSE [flight EXCEPT !.left = TRUE]
    /\ UNCHANGED <<mapped, sent>>

-----------------------------------------------------------------------------
Starts(op) == flight' = [op |-> op, page |-> OnScreen, key |-> key, left |-> FALSE]

\* verify (of a marketplace that has been configured)
Verify ==
    /\ ~Busy
    /\ result' = Nothing
    /\ Starts("verify")
    /\ UNCHANGED <<tab, sku, draft, text, verified, validated, confirmed, key, mapped, sent>>

\* validate.  A tick made before it stays.
Validate ==
    /\ ~Busy
    /\ validated' = Nothing
    /\ Starts("validate")
    /\ UNCHANGED <<tab, sku, draft, text, verified, confirmed, result, key, mapped, sent>>

\* The box can be ticked when a validation is shown.
Tick ==
    /\ validated # Nothing
    /\ confirmed' = IF confirmed = Nothing THEN OnScreen ELSE Nothing
    /\ UNCHANGED <<tab, sku, draft, text, verified, validated, result, key, flight, mapped, sent>>

\* register
Register ==
    /\ ~Busy
    /\ <<sku, tab>> \notin mapped
    /\ verified # Nothing /\ validated # Nothing /\ confirmed # Nothing
    /\ result' = Nothing
    /\ Starts("register")
    /\ sent' = sent \union {[key |-> key, page |-> OnScreen, confirmed |-> confirmed]}
    /\ UNCHANGED <<tab, sku, draft, text, verified, validated, confirmed, key, mapped>>

-----------------------------------------------------------------------------
(***************************************************************************)
(* Answers.  Those that are not 2xx, or never come, are thrown by api.ts   *)
(* and become a message.                                                   *)
(***************************************************************************)
Answered(op) ==
    /\ flight # Idle /\ flight.op = op
    /\ flight' = Idle
    /\ UNCHANGED <<tab, sku, draft, text, key, sent>>

Shows(variable, value) == variable' = IF flight.left THEN variable ELSE value

Verified ==
    /\ Answered("verify")
    /\ \E ok \in BOOLEAN : Shows(verified, IF ok THEN flight.page.tab ELSE Nothing)
    /\ UNCHANGED <<validated, confirmed, result, mapped>>

\* Any text may be accepted: the validators of some marketplaces pass the starter too
\* (registrationValidator.ts:388-396 and 40-43).
Validated ==
    /\ Answered("validate")
    /\ Shows(validated, flight.page.text)
    /\ UNCHANGED <<verified, confirmed, result, mapped>>

\* The product was created, or had been by an earlier request of the key: the
\* catalog is read again, and the box is cleared.
Registered ==
    /\ Answered("register")
    /\ mapped' = mapped \union {<<flight.page.sku, flight.page.tab>>}
    /\ Shows(result, flight.key)
    /\ Shows(confirmed, Nothing)
    /\ UNCHANGED <<verified, validated>>

\* Refused, lost, or successful but for the reading of the catalog after it
CallFails ==
    /\ \E op \in {"validate", "register"} : Answered(op)
    /\ UNCHANGED <<answerVars, mapped>>

\* refreshCatalog, from other pages or after a mapping made elsewhere
CatalogRead(s, t) ==
    /\ mapped' = mapped \union {<<s, t>>}
    /\ UNCHANGED <<tab, sku, draft, text, answerVars, key, flight, sent>>

-----------------------------------------------------------------------------
Edits ==
    \/ \E d \in Drafts : ChangeFields(d)
    \/ \E d \in Drafts \union {Nothing} : EditText(d)
    \/ \E t \in Tabs : SelectMarket(t)
    \/ \E s \in Skus, d \in Drafts : SelectProduct(s, d)
    \/ ApplyGuidedForm
    \/ \E d \in Drafts : LeaveAndReturn(d)
Clicks == Verify \/ Validate \/ Tick \/ Register
Answers == Verified \/ Validated \/ Registered \/ CallFails

FormNext ==
    \/ Edits \/ Clicks \/ Answers
    \/ \E s \in Skus, t \in Tabs : CatalogRead(s, t)

FormSpec == FormInit /\ [][FormNext]_formVars

-----------------------------------------------------------------------------
(***************************************************************************)
(* Property                                                                *)
(***************************************************************************)
\* What is sent is what was on the page when the seller ticked the box, and one key
\* never carries two requests: whatever is edited while calls are under way and
\* whenever their answers arrive, the server's answer "the same key for a
\* different request" (registrationLedger.claim) is never met, and a repeat
\* after a lost answer is a repeat.
SentAsConfirmed ==
    /\ \A r \in sent : r.confirmed = r.page
    /\ \A r, s \in sent : r.key = s.key => r = s
=============================================================================
