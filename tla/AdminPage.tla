----------------------------- MODULE AdminPage -----------------------------
(***************************************************************************)
(* The admin page (src/src/admin-ui.ts): the gate, the table of the access *)
(* codes, generating and revoking one, the usage timeline.                 *)
(*                                                                         *)
(* Every handler of the page is a request and what is done with its        *)
(* answer; requests overlap, the Registry serves them in any order and the *)
(* answers come back in any order.  Other administrators work too.         *)
(***************************************************************************)
EXTENDS Integers, FiniteSets

CONSTANTS
  AccessCode,  \* the codes that may be drawn
  NoCode,
  Slot,        \* the page's requests on their way at once
  MaxClicks    \* bound

ASSUME AdminAssumption ==
  /\ NoCode \notin AccessCode
  /\ MaxClicks \in Nat

VARIABLES
  registered,  \* the Registry's table of codes
  session,     \* is the admin cookie valid
  shown,       \* the panel that is shown
  table,       \* the rows of the codes table
  newCode,     \* the code shown as just generated
  genDisabled, \* of the button Generate
  heading,     \* the code in the heading of the timeline
  timeline,    \* whose events the timeline shows
  ask,         \* the requests on their way
  revokedHere, \* the codes whose revocation this page made and then listed
  calm,        \* so far every click waited for the answers, and none was lost
  clicks

adminPage == <<shown, table, newCode, genDisabled, heading, timeline, revokedHere>>
user      == <<calm, clicks>>
adminVars == <<registered, session, adminPage, ask, user>>

CodeStatus == {"unused", "active", "revoked"}
Kind == {"none", "enter", "probe", "list", "create", "revoke", "timeline", "logout"}
Row  == [code : AccessCode, revoked : BOOLEAN]

\* An answer: r.ok, the rows of a listing, the code it is about.
NoAsk == [kind |-> "none", answered |-> FALSE, ok |-> FALSE, code |-> NoCode, rows |-> {}]
Ask   == [kind : Kind, answered : BOOLEAN, ok : BOOLEAN, code : AccessCode \union {NoCode},
          rows : SUBSET Row]

Asks(kind, code) == [NoAsk EXCEPT !.kind = kind, !.code = code]

ListCodes == {[code |-> c, revoked |-> registered[c] = "revoked"] :
                c \in {d \in AccessCode : registered[d] # "unused"}}

AdminTypeOK ==
  /\ registered \in [AccessCode -> CodeStatus]
  /\ {session, genDisabled, calm} \subseteq BOOLEAN
  /\ shown \in {"gate", "main"}
  /\ table \subseteq Row
  /\ {newCode, heading, timeline} \subseteq AccessCode \union {NoCode}
  /\ ask \in [Slot -> Ask]
  /\ revokedHere \subseteq AccessCode
  /\ clicks \in 0 .. MaxClicks

(* A page that was just loaded asks for the codes, in case the session     *)
(* still holds.                                                            *)
FirstAsk == [s \in Slot |-> IF s = CHOOSE t \in Slot : TRUE THEN Asks("probe", NoCode) ELSE NoAsk]

AdminInit ==
  /\ registered = [c \in AccessCode |-> "unused"]
  /\ session \in BOOLEAN
  /\ shown = "gate" /\ table = {} /\ newCode = NoCode /\ genDisabled = FALSE
  /\ heading = NoCode /\ timeline = NoCode /\ revokedHere = {}
  /\ ask = FirstAsk
  /\ calm = TRUE /\ clicks = 0

-----------------------------------------------------------------------------
(* A click whose handler sends a request at once.                          *)
Free(s) == ask[s] = NoAsk

Clicks(s, kind, code) ==
  /\ clicks < MaxClicks /\ Free(s)
  /\ clicks' = clicks + 1
  /\ calm' = (calm /\ \A t \in Slot : Free(t))
  /\ ask' = [ask EXCEPT ![s] = Asks(kind, code)]
  /\ UNCHANGED <<registered, session>>

Enter(s) ==
  /\ shown = "gate" /\ Clicks(s, "enter", NoCode)
  /\ UNCHANGED adminPage

DoGenerate(s) ==
  /\ shown = "main" /\ ~genDisabled /\ Clicks(s, "create", NoCode)
  /\ genDisabled' = TRUE
  /\ UNCHANGED <<shown, table, newCode, heading, timeline, revokedHere>>

\* A row that is revoked has no button; the question before it is answered with yes.
Revoke(s, c) ==
  /\ shown = "main" /\ [code |-> c, revoked |-> FALSE] \in table /\ Clicks(s, "revoke", c)
  /\ UNCHANGED adminPage

ShowTimeline(s, c) ==
  /\ shown = "main" /\ \E r \in table : r.code = c
  /\ Clicks(s, "timeline", c)
  /\ heading' = c
  /\ UNCHANGED <<shown, table, newCode, genDisabled, timeline, revokedHere>>

SignOut(s) ==
  /\ shown = "main" /\ Clicks(s, "logout", NoCode)
  /\ UNCHANGED adminPage

-----------------------------------------------------------------------------
(* The Worker and the Registry serve a request.  Behind the gate without a *)
(* session the answer is a 401.                                            *)
Serve(s) ==
  LET kind   == ask[s].kind
      code   == ask[s].code
      answer == [ask[s] EXCEPT !.answered = TRUE]
  IN
  /\ kind # "none" /\ ~ask[s].answered
  /\ UNCHANGED <<adminPage, user>>
  /\ \/ /\ kind = "enter"
        /\ \E right \in BOOLEAN : /\ session' = (session \/ right)
                                  /\ ask' = [ask EXCEPT ![s] = [answer EXCEPT !.ok = right]]
        /\ UNCHANGED registered
     \/ /\ kind = "logout"
        /\ session' = FALSE
        /\ ask' = [ask EXCEPT ![s] = [answer EXCEPT !.ok = TRUE]]
        /\ UNCHANGED registered
     \/ /\ kind \notin {"enter", "logout"} /\ ~session
        /\ ask' = [ask EXCEPT ![s] = answer]
        /\ UNCHANGED <<registered, session>>
     \/ /\ session /\ kind \in {"probe", "list"}
        /\ ask' = [ask EXCEPT ![s] = [answer EXCEPT !.ok = TRUE, !.rows = ListCodes]]
        /\ UNCHANGED <<registered, session>>
     \/ /\ session /\ kind = "create"
        /\ \E c \in AccessCode :
             /\ registered[c] = "unused"
             /\ registered' = [registered EXCEPT ![c] = "active"]
             /\ ask' = [ask EXCEPT ![s] = [answer EXCEPT !.ok = TRUE, !.code = c]]
        /\ UNCHANGED session
     \/ /\ session /\ kind = "create"   \* every draw collides
        /\ ask' = [ask EXCEPT ![s] = answer]
        /\ UNCHANGED <<registered, session>>
     \/ /\ session /\ kind = "revoke"
        /\ registered' = [registered EXCEPT ![code] = "revoked"]
        /\ ask' = [ask EXCEPT ![s] = [answer EXCEPT !.ok = TRUE]]
        /\ UNCHANGED session
     \/ /\ session /\ kind = "timeline"
        /\ ask' = [ask EXCEPT ![s] = [answer EXCEPT !.ok = TRUE]]
        /\ UNCHANGED <<registered, session>>

-----------------------------------------------------------------------------
\* loadCodes: the handler goes on with a listing.
LoadCodes(s, cause) == ask' = [ask EXCEPT ![s] = Asks("list", cause)]

Ends(s) == ask' = [ask EXCEPT ![s] = NoAsk]

\* Mutant: the rows of before are not cleared.
RenderMore(rows) == table \union rows

\* renderCodes replaces the whole table.
RenderCodes(rows) == rows

\* The answer is used by the page as it is now.
Entered(s) ==
  /\ ask[s].kind = "enter" /\ ask[s].answered
  /\ \/ ask[s].ok /\ shown' = "main" /\ LoadCodes(s, NoCode)
     \/ ~ask[s].ok /\ Ends(s) /\ UNCHANGED shown
  /\ UNCHANGED <<registered, session, table, newCode, genDisabled, heading, timeline, revokedHere,
                 user>>

Probed(s) ==
  /\ ask[s].kind = "probe" /\ ask[s].answered
  /\ \/ /\ ask[s].ok /\ shown' = "main" /\ LoadCodes(s, NoCode)
        /\ table' = RenderCodes(ask[s].rows)
     \/ ~ask[s].ok /\ Ends(s) /\ UNCHANGED <<shown, table>>
  /\ UNCHANGED <<registered, session, newCode, genDisabled, heading, timeline, revokedHere, user>>

\* A refused listing leaves the table as it is, without a word.
Listed(s) ==
  /\ ask[s].kind = "list" /\ ask[s].answered /\ Ends(s)
  /\ \/ /\ ask[s].ok /\ table' = RenderCodes(ask[s].rows)
        /\ revokedHere' = revokedHere \union ({ask[s].code} \ {NoCode})
     \/ ~ask[s].ok /\ UNCHANGED <<table, revokedHere>>
  /\ UNCHANGED <<registered, session, shown, newCode, genDisabled, heading, timeline, user>>

Generated(s) ==
  /\ ask[s].kind = "create" /\ ask[s].answered
  /\ genDisabled' = FALSE
  /\ \/ ask[s].ok /\ newCode' = ask[s].code /\ LoadCodes(s, NoCode)
     \/ ~ask[s].ok /\ Ends(s) /\ UNCHANGED newCode
  /\ UNCHANGED <<registered, session, shown, table, heading, timeline, revokedHere, user>>

\* Mutant: the row is marked without a look at the answer.
RevokedUnseen(s) ==
  /\ ask[s].kind = "revoke" /\ ask[s].answered
  /\ Ends(s)
  /\ table' = {r \in table : r.code # ask[s].code}
                \union {[code |-> ask[s].code, revoked |-> TRUE]}
  /\ UNCHANGED <<registered, session, shown, newCode, genDisabled, heading, timeline,
                 revokedHere, user>>

Revoked(s) ==
  /\ ask[s].kind = "revoke" /\ ask[s].answered
  /\ \/ ask[s].ok /\ LoadCodes(s, ask[s].code)
     \/ ~ask[s].ok /\ Ends(s)
  /\ UNCHANGED <<registered, session, adminPage, user>>

\* An answer that is not ok shows no events.
TimelineShown(s) ==
  /\ ask[s].kind = "timeline" /\ ask[s].answered /\ Ends(s)
  /\ timeline' = IF ask[s].ok THEN ask[s].code ELSE NoCode
  /\ UNCHANGED <<registered, session, shown, table, newCode, genDisabled, heading, revokedHere,
                 user>>

\* The page is loaded again; what it had asked for reaches nobody.
SignedOut(s) ==
  /\ ask[s].kind = "logout" /\ ask[s].answered
  /\ shown' = "gate" /\ table' = {} /\ newCode' = NoCode /\ genDisabled' = FALSE
  /\ heading' = NoCode /\ timeline' = NoCode /\ revokedHere' = {}
  /\ ask' = FirstAsk
  /\ UNCHANGED <<registered, session, user>>

\* The network fails before or after the request was served: the handler ends there.
AskLost(s) ==
  /\ ~Free(s) /\ Ends(s)
  /\ calm' = FALSE
  /\ UNCHANGED <<registered, session, adminPage, clicks>>

-----------------------------------------------------------------------------
(* Another administrator's changes, and the end of the session.            *)
Elsewhere ==
  /\ \/ /\ \E c \in AccessCode :
             \/ registered[c] = "unused" /\ registered' = [registered EXCEPT ![c] = "active"]
             \/ registered[c] = "active" /\ registered' = [registered EXCEPT ![c] = "revoked"]
        /\ UNCHANGED session
     \/ session /\ session' = FALSE /\ UNCHANGED registered
  /\ UNCHANGED <<adminPage, ask, user>>

AdminNext ==
  \/ \E s \in Slot :
       \/ Enter(s) \/ DoGenerate(s) \/ SignOut(s)
       \/ \E c \in AccessCode : Revoke(s, c) \/ ShowTimeline(s, c)
       \/ Serve(s)
       \/ Entered(s) \/ Probed(s) \/ Listed(s) \/ Generated(s) \/ Revoked(s)
       \/ TimelineShown(s) \/ SignedOut(s) \/ AskLost(s)
  \/ Elsewhere

AdminSpec == AdminInit /\ [][AdminNext]_adminVars

-----------------------------------------------------------------------------
(* Whatever the order of the answers, the panel never shows what has not   *)
(* been: a listed or just generated code exists, and a code that is shown  *)
(* as revoked is (admin-ui.ts:248, registry.ts:145).  And types.           *)
ShownWasSo ==
  /\ AdminTypeOK
  /\ newCode # NoCode => registered[newCode] # "unused"
  /\ \A r \in table : /\ registered[r.code] # "unused"
                      /\ r.revoked => registered[r.code] = "revoked"

(* When clicks wait for answers and none is lost, the panel is right about *)
(* what this page did: a code revoked here, and listed since, is not shown *)
(* as open again (admin-ui.ts:278); the timeline is that of its heading;   *)
(* the button can be pressed again.                                        *)
CalmPageIsRight ==
  calm =>
    /\ \A r \in table : r.code \in revokedHere => r.revoked
    /\ (\A s \in Slot : Free(s)) => timeline \in {NoCode, heading} /\ ~genDisabled

(* Both: what the panel shows was so, and to a patient user is so.         *)
PanelIsRight == ShownWasSo /\ CalmPageIsRight

-----------------------------------------------------------------------------
(* Said of the program and not so: the README has the behaviours.          *)

(* "Usage timeline - <code>" (admin-ui.ts:169): once every answer is there *)
(* the events shown are those of the code in the heading.                  *)
TimelineOfHeading == (\A s \in Slot : Free(s)) => timeline \in {NoCode, heading}

=============================================================================
