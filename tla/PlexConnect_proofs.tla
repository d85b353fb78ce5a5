-------------------------- MODULE PlexConnect_proofs --------------------------
(***************************************************************************)
(* Proofs about PlexConnect, for any number of tabs and servers: the record   *)
(* of the owner's Plex is there for as long as the Hub shows that Plex, and   *)
(* no longer; and the link card goes only for the Plex it points at.          *)
(***************************************************************************)
EXTENDS PlexConnect, TLAPS

(* A run works on what the Hub shows as being added. *)
RunIsShown ==
  /\ job = "ask" => adding = "connect"
  /\ job = "wire" => adding \in {"connect", "reconnect"}
  /\ job = "other" => adding = "other"
  /\ job = "drop" => adding = "none"
  /\ adding = "reconnect" => onHub
  /\ adding \in {"connect", "failed"} => ~onHub

(* A sign-in that is about to write its answer has written its token. *)
TokenFirst == \A t \in Tab : pin[t].at = "half" => token

Inv ==
  ConnectTypeOK /\ RunIsShown /\ TokenFirst /\ AnswerHasToken /\ NoRecordWithoutPlex

(* Where one server is chosen at a time, no choice is under way beside a Plex *)
(* that is on the Hub or on its way: so an add that is refused has no record  *)
(* but its own to clear.                                                      *)
ChoiceIsAlone ==
  OneConnect => \A t \in Tab : request[t].at # "none" =>
    /\ ~onHub /\ adding \notin {"connect", "failed", "reconnect"}
    /\ \A u \in Tab : request[u].at # "none" => u = t

OneInv == Inv /\ ChoiceIsAlone /\ (OneConnect => HubPlexHasItsRecord)

Pins == [at: {"none", "stored", "taken", "half"}, then: {"hub", "connect"}]
Requests == [at: {"list", "find"}, server: Server, replaces: BOOLEAN] \cup {NoRequest}

(* A new Hub has neither record nor sign-in. *)
LEMMA InitInv == ConnectInit => OneInv
<1> SUFFICES ASSUME ConnectInit PROVE OneInv
  OBVIOUS
<1>1. NoPin \in Pins /\ NoRequest \in Requests
  BY DEF NoPin, NoRequest, Pins, Requests
<1>2. ConnectTypeOK
  BY <1>1 DEF ConnectInit, ConnectTypeOK, Pins, Requests
<1>3. RunIsShown /\ TokenFirst /\ AnswerHasToken /\ NoRecordWithoutPlex
  BY DEF ConnectInit, RunIsShown, TokenFirst, AnswerHasToken, NoRecordWithoutPlex, NoPin
<1>4. ChoiceIsAlone /\ HubPlexHasItsRecord
  BY DEF ConnectInit, ChoiceIsAlone, HubPlexHasItsRecord, NoRequest
<1> QED BY <1>2, <1>3, <1>4 DEF OneInv, Inv

(* Signing in touches neither the record nor the Hub. *)
LEMMA SignInInv ==
  ASSUME OneInv, NEW t \in Tab,
         PostSignIn(t) \/ TakePin(t) \/ NotApproved(t) \/ SaveToken(t) \/ SaveAnswer(t)
  PROVE  OneInv'
<1>1. UNCHANGED <<request, record, link, onHub, rival, adding, job>>
  BY DEF PostSignIn, TakePin, NotApproved, SaveToken, SaveAnswer, hub
<1>2. PICK new \in Pins : pin' = [pin EXCEPT ![t] = new]
  <2>1. pin[t] \in Pins /\ NoPin \in Pins
    BY DEF OneInv, Inv, ConnectTypeOK, Pins, NoPin
  <2>2. \A at \in {"taken", "half"} :
          /\ [pin[t] EXCEPT !.at = at] \in Pins
          /\ [pin EXCEPT ![t].at = at] = [pin EXCEPT ![t] = [pin[t] EXCEPT !.at = at]]
    BY <2>1 DEF Pins
  <2>3. CASE PostSignIn(t)
    BY <2>3 DEF PostSignIn, Pins
  <2>4. CASE TakePin(t)
    BY <2>1, <2>2, <2>4 DEF TakePin
  <2>5. CASE NotApproved(t) \/ SaveToken(t) \/ SaveAnswer(t)
    BY <2>1, <2>2, <2>5 DEF NotApproved, SaveToken, SaveAnswer
  <2> QED BY <2>3, <2>4, <2>5
<1>3. pin' \in [Tab -> Pins] /\ \A u \in Tab : pin'[u] = IF u = t THEN new ELSE pin[u]
  BY <1>2 DEF OneInv, Inv, ConnectTypeOK, Pins
<1>4. token' \in BOOLEAN /\ answer' \in BOOLEAN
  BY DEF OneInv, Inv, ConnectTypeOK, PostSignIn, TakePin, NotApproved, SaveToken, SaveAnswer
<1>5. ConnectTypeOK'
  BY <1>1, <1>3, <1>4 DEF OneInv, Inv, ConnectTypeOK, Pins
<1>8. TokenFirst' /\ AnswerHasToken'
  <2>1. CASE PostSignIn(t) \/ TakePin(t) \/ NotApproved(t) \/ SaveAnswer(t)
    <3>1. UNCHANGED token /\ (answer' => answer \/ token)
      BY <2>1 DEF OneInv, Inv, TokenFirst, PostSignIn, TakePin, NotApproved, SaveAnswer
    <3>2. pin'[t].at # "half"
      BY <2>1 DEF OneInv, Inv, ConnectTypeOK, NoPin, PostSignIn, TakePin, NotApproved, SaveAnswer
    <3> QED BY <1>3, <3>1, <3>2 DEF OneInv, Inv, TokenFirst, AnswerHasToken
  <2>2. CASE SaveToken(t)
    BY <2>2 DEF SaveToken, TokenFirst, AnswerHasToken
  <2> QED BY <2>1, <2>2
<1>9. RunIsShown' /\ NoRecordWithoutPlex' /\ ChoiceIsAlone' /\ (OneConnect => HubPlexHasItsRecord)'
  BY <1>1 DEF OneInv, Inv, RunIsShown, NoRecordWithoutPlex, ChoiceIsAlone, HubPlexHasItsRecord
<1> QED BY <1>5, <1>8, <1>9 DEF OneInv, Inv

(* Choosing a server, up to the moment its record is written. *)
LEMMA ChooseInv ==
  ASSUME OneInv, NEW t \in Tab,
         PostConnect(t) \/ ListFails(t) \/ ListServers(t) \/ Unreachable(t)
  PROVE  OneInv'
<1>1. UNCHANGED <<token, answer, pin, record, link, onHub, rival, adding, job>>
  BY DEF PostConnect, ListFails, ListServers, Unreachable, hub, signIn
<1>2. ConnectTypeOK'
  <2>1. PICK new \in Requests : request' = [request EXCEPT ![t] = new]
    <3>1. request[t] \in Requests /\ NoRequest \in Requests
      BY DEF OneInv, Inv, ConnectTypeOK, Requests
    <3>2. CASE PostConnect(t)
      BY <3>2 DEF PostConnect, Requests
    <3>3. CASE ListFails(t) \/ Unreachable(t)
      BY <3>1, <3>3 DEF ListFails, Unreachable
    <3>4. CASE ListServers(t)
      <4> DEFINE found == [request[t] EXCEPT !.at = "find",
                                             !.replaces = @ /\ LinkMatches(t)]
      <4>1. found \in Requests
        <5>1. request[t] \in [at: {"list", "find"}, server: Server, replaces: BOOLEAN]
          BY <3>1, <3>4 DEF Requests, NoRequest, ListServers
        <5>2. (request[t].replaces /\ LinkMatches(t)) \in BOOLEAN
          OBVIOUS
        <5> QED BY <5>1, <5>2 DEF Requests
      <4>2. request' = [request EXCEPT ![t] = found]
        BY <3>1, <3>4 DEF ListServers, Requests, NoRequest, OneInv, Inv, ConnectTypeOK
      <4> QED BY <4>1, <4>2
    <3> QED BY <3>2, <3>3, <3>4
  <2>2. request' \in [Tab -> Requests]
    BY <2>1 DEF OneInv, Inv, ConnectTypeOK, Requests
  <2> QED BY <1>1, <2>2 DEF OneInv, Inv, ConnectTypeOK, Requests
<1>3. ChoiceIsAlone'
  <2>1. CASE PostConnect(t)
    <3>1. OneConnect => \A u \in Tab : request'[u].at # "none" => u = t
      BY <2>1 DEF OneInv, Inv, ConnectTypeOK, PostConnect
    <3>2. ~onHub /\ (OneConnect => adding \notin {"connect", "failed", "reconnect"})
      BY <2>1 DEF OneInv, Inv, RunIsShown, PostConnect, Offered
    <3> QED BY <1>1, <3>1, <3>2 DEF ChoiceIsAlone
  <2>2. CASE ListFails(t) \/ ListServers(t) \/ Unreachable(t)
    <3>1. \A u \in Tab : request'[u].at # "none" => request[u].at # "none"
      BY <2>2 DEF OneInv, Inv, ConnectTypeOK, NoRequest, ListFails, ListServers, Unreachable
    <3> QED BY <1>1, <3>1 DEF OneInv, ChoiceIsAlone
  <2> QED BY <2>1, <2>2
<1>4. /\ RunIsShown' /\ TokenFirst' /\ AnswerHasToken'
      /\ NoRecordWithoutPlex' /\ (OneConnect => HubPlexHasItsRecord)'
  BY <1>1 DEF OneInv, Inv, RunIsShown, TokenFirst, AnswerHasToken, NoRecordWithoutPlex,
       HubPlexHasItsRecord
<1> QED BY <1>2, <1>3, <1>4 DEF OneInv, Inv

(* The record is written, and the add begins; no other choice is under way. *)
LEMMA ConnectInv == ASSUME OneInv, NEW t \in Tab, Connect(t) PROVE OneInv'
<1>1. record' \in Records /\ record' # NoRecord
  <2>1. request[t].server \in Server
    BY DEF OneInv, Inv, ConnectTypeOK, NoRequest, Connect
  <2>2. request[t].replaces \in BOOLEAN
    BY DEF OneInv, Inv, ConnectTypeOK, NoRequest, Connect
  <2> QED BY <2>1, <2>2, NoRecordIsNone DEF Connect, Records
<1>2. ConnectTypeOK'
  BY <1>1 DEF OneInv, Inv, ConnectTypeOK, NoRequest, Connect, signIn
<1>3. OneConnect => \A u \in Tab : request'[u].at = "none"
  BY DEF OneInv, Inv, ConnectTypeOK, ChoiceIsAlone, NoRequest, Connect
<1>4. RunIsShown' /\ TokenFirst' /\ AnswerHasToken' /\ NoRecordWithoutPlex'
  BY DEF OneInv, Inv, RunIsShown, TokenFirst, AnswerHasToken, NoRecordWithoutPlex, Connect, signIn,
         Free, Offered
<1>5. ChoiceIsAlone' /\ (OneConnect => HubPlexHasItsRecord)'
  BY <1>1, <1>3 DEF ChoiceIsAlone, HubPlexHasItsRecord
<1> QED BY <1>2, <1>4, <1>5 DEF OneInv, Inv

(* The add is refused, and the record cleared: no other Plex has one then. *)
LEMMA RefusedInv == ASSUME OneInv, NEW t \in Tab, ConnectRefused(t) PROVE OneInv'
<1>1. UNCHANGED <<token, answer, pin, link, onHub, rival, adding, job>> /\ record' = NoRecord
  BY DEF ConnectRefused, hub, signIn
<1>2. ConnectTypeOK'
  BY <1>1 DEF OneInv, Inv, ConnectTypeOK, NoRequest, ConnectRefused
<1>3. \A u \in Tab : request'[u].at # "none" => request[u].at # "none"
  BY DEF OneInv, Inv, ConnectTypeOK, NoRequest, ConnectRefused
<1>4. ChoiceIsAlone'
  BY <1>1, <1>3 DEF OneInv, ChoiceIsAlone
<1>5. (OneConnect => HubPlexHasItsRecord)'
  BY <1>1 DEF OneInv, ChoiceIsAlone, HubPlexHasItsRecord, ConnectRefused
<1>6. RunIsShown' /\ TokenFirst' /\ AnswerHasToken' /\ NoRecordWithoutPlex'
  BY <1>1 DEF OneInv, Inv, RunIsShown, TokenFirst, AnswerHasToken, NoRecordWithoutPlex
<1> QED BY <1>2, <1>4, <1>5, <1>6 DEF OneInv, Inv

(* The run's own steps. *)
LEMMA RunInv ==
  ASSUME OneInv, AskPlex \/ NoPlex \/ Wire \/ DropReplacedLink
  PROVE  OneInv'
<1>1. UNCHANGED <<token, answer, pin, request, rival>>
  BY DEF AskPlex, NoPlex, Wire, DropReplacedLink, signIn
<1>2. record' \in Records \cup {NoRecord} /\ (record' = NoRecord <=> record = NoRecord)
  <2>1. CASE DropReplacedLink
    <3>1. CASE record # NoRecord /\ record.replaces
      <4>1. record' \in Records
        BY <2>1, <3>1 DEF OneInv, Inv, ConnectTypeOK, Records, DropReplacedLink
      <4> QED BY <3>1, <4>1, NoRecordIsNone DEF Records
    <3>2. CASE ~(record # NoRecord /\ record.replaces)
      BY <2>1, <3>2 DEF OneInv, Inv, ConnectTypeOK, DropReplacedLink
    <3> QED BY <3>1, <3>2
  <2>2. CASE AskPlex \/ NoPlex \/ Wire
    BY <2>2 DEF OneInv, Inv, ConnectTypeOK, AskPlex, NoPlex, Wire
  <2> QED BY <2>1, <2>2
<1>3. ConnectTypeOK'
  BY <1>1, <1>2 DEF OneInv, Inv, ConnectTypeOK, AskPlex, NoPlex, Wire, DropReplacedLink
<1>4. RunIsShown' /\ TokenFirst' /\ AnswerHasToken'
  BY <1>1 DEF OneInv, Inv, RunIsShown, TokenFirst, AnswerHasToken, AskPlex, NoPlex, Wire,
       DropReplacedLink
<1>5. NoRecordWithoutPlex' /\ (OneConnect => HubPlexHasItsRecord)'
  BY <1>2 DEF OneInv, Inv, RunIsShown, NoRecordWithoutPlex, HubPlexHasItsRecord, AskPlex, NoPlex,
       Wire, DropReplacedLink
<1>6. ChoiceIsAlone'
  BY <1>1 DEF OneInv, Inv, RunIsShown, ChoiceIsAlone, AskPlex, NoPlex, Wire, DropReplacedLink
<1> QED BY <1>3, <1>4, <1>5, <1>6 DEF OneInv, Inv

(* What else is asked of the manager; here a reconnect and an add of another  *)
(* app may begin, but none of a Plex.                                         *)
LEMMA OwnerInv ==
  ASSUME OneInv,
         \/ CancelAdd \/ RetryAdd \/ Disconnect \/ Reconnect \/ AddOther \/ OtherEnds
         \/ RemoveLink \/ EditLink
  PROVE  OneInv'
<1>1. UNCHANGED <<token, answer, pin, request>> /\ record' \in {record, NoRecord}
  BY DEF CancelAdd, RetryAdd, Disconnect, Reconnect, AddOther, OtherEnds, RemoveLink, EditLink,
         signIn, hub
<1>2. ConnectTypeOK'
  BY <1>1 DEF OneInv, Inv, ConnectTypeOK, CancelAdd, RetryAdd, Disconnect, Reconnect, AddOther, OtherEnds,
       RemoveLink, EditLink, hub
<1>3. RunIsShown' /\ TokenFirst' /\ AnswerHasToken'
  BY <1>1 DEF OneInv, Inv, ConnectTypeOK, RunIsShown, TokenFirst, AnswerHasToken, CancelAdd, RetryAdd,
       Disconnect, Reconnect, AddOther, OtherEnds, RemoveLink, EditLink, hub, Free
<1>4. NoRecordWithoutPlex'
  BY <1>1 DEF OneInv, Inv, RunIsShown, NoRecordWithoutPlex, CancelAdd, RetryAdd, Disconnect,
       Reconnect, AddOther, OtherEnds, RemoveLink, EditLink, hub, Free
<1>6. (OneConnect => HubPlexHasItsRecord)'
  <2>1. CASE CancelAdd \/ Disconnect
    BY <2>1 DEF OneInv, Inv, ConnectTypeOK, RunIsShown, HubPlexHasItsRecord, CancelAdd, Disconnect, Free
  <2>2. CASE RetryAdd \/ Reconnect \/ AddOther
    BY <2>2 DEF OneInv, HubPlexHasItsRecord, RetryAdd, Reconnect, AddOther, Free
  <2>3. CASE OtherEnds \/ RemoveLink \/ EditLink
    BY <2>3 DEF OneInv, HubPlexHasItsRecord, OtherEnds, RemoveLink, EditLink, hub
  <2> QED BY <2>1, <2>2, <2>3
<1>5. ChoiceIsAlone'
  <2>1. /\ onHub' => onHub
        /\ adding' \in {"connect", "failed", "reconnect"} =>
             onHub \/ adding \in {"connect", "failed", "reconnect"}
    BY DEF CancelAdd, RetryAdd, Disconnect, Reconnect, AddOther, OtherEnds, RemoveLink, EditLink,
           hub
  <2> QED BY <1>1, <2>1 DEF OneInv, ChoiceIsAlone
<1> QED BY <1>2, <1>3, <1>4, <1>5, <1>6 DEF OneInv, Inv

(* A new process has no requests, and takes up what the snapshot shows. *)
LEMMA RestartInv == ASSUME OneInv, ConnectRestart PROVE OneInv'
<1>1. UNCHANGED <<token, answer, record, link, onHub, rival, adding>>
  BY DEF ConnectRestart
<1>2. \A t \in Tab : pin'[t].at = "none" /\ request'[t].at = "none"
  BY DEF ConnectRestart, NoPin, NoRequest
<1>3. ConnectTypeOK'
  BY <1>1 DEF OneInv, Inv, ConnectTypeOK, ConnectRestart, NoPin, NoRequest
<1>4. RunIsShown'
  BY <1>1 DEF OneInv, Inv, RunIsShown, ConnectRestart
<1>5. TokenFirst' /\ AnswerHasToken' /\ NoRecordWithoutPlex' /\ ChoiceIsAlone'
  BY <1>1, <1>2 DEF OneInv, Inv, TokenFirst, AnswerHasToken, NoRecordWithoutPlex, ChoiceIsAlone
<1>6. (OneConnect => HubPlexHasItsRecord)'
  BY <1>1 DEF OneInv, HubPlexHasItsRecord
<1> QED BY <1>3, <1>4, <1>5, <1>6 DEF OneInv, Inv

(* Every step keeps the invariant.                                            *)
LEMMA NextInv == OneInv /\ [ConnectNext]_connectVars => OneInv'
<1> SUFFICES ASSUME OneInv, [ConnectNext]_connectVars PROVE OneInv'
  OBVIOUS
<1>1. CASE UNCHANGED connectVars
  BY <1>1 DEF connectVars, OneInv, Inv, ConnectTypeOK, RunIsShown, TokenFirst, AnswerHasToken,
       NoRecordWithoutPlex, ChoiceIsAlone, HubPlexHasItsRecord
<1>2. CASE ConnectNext
  BY <1>2, SignInInv, ChooseInv, ConnectInv, RefusedInv, RunInv, OwnerInv, RestartInv DEF ConnectNext
<1> QED BY <1>1, <1>2

(* So it holds in every state.                                                *)
LEMMA InvHolds == ConnectSpec => []OneInv
<1>1. ConnectInit => OneInv
  BY InitInv
<1>2. OneInv /\ [ConnectNext]_connectVars => OneInv'
  BY NextInv
<1> QED BY <1>1, <1>2, PTL DEF ConnectSpec

(* Whatever the tabs do at once, the record with the owner's token is not     *)
(* kept without a Plex on the Hub or on its way there.                        *)
THEOREM NoTokenIsLeftBehind == ConnectSpec => []NoRecordWithoutPlex
<1>1. OneInv => NoRecordWithoutPlex
  BY DEF OneInv, Inv
<1> QED BY <1>1, InvHolds, PTL

(* Wherever a restart strikes, an answer never says Plex is signed in without *)
(* the token the claim needs.                                                 *)
THEOREM TokenBacksTheAnswer == ConnectSpec => []AnswerHasToken
<1>1. OneInv => AnswerHasToken
  BY DEF OneInv, Inv
<1> QED BY <1>1, InvHolds, PTL

(* When one server is chosen at a time, a Plex on the Hub, on its way or      *)
(* waiting for "Try again" never loses its record.                            *)
THEOREM RecordStays == ASSUME OneConnect PROVE ConnectSpec => []HubPlexHasItsRecord
<1>1. OneInv => HubPlexHasItsRecord
  BY DEF OneInv
<1> QED BY <1>1, InvHolds, PTL
------------------------------------------------------------------------------
(* The link card.  A record that says a card is to be replaced is of the      *)
(* server that card pointed at, and so is a choice past plex.tv that will     *)
(* write one; the card is only dropped for a Plex the Hub already shows.      *)
CardIsForServer ==
  /\ job = "drop" => onHub
  /\ record # NoRecord /\ record.replaces => record.server = LinkedServer
  /\ \A t \in Tab : request[t].at = "find" /\ request[t].replaces =>
       request[t].server = LinkedServer

(* Only the card of the chosen server is marked to be replaced. *)
LEMMA ChooseKeepsCard ==
  ASSUME OneInv, CardIsForServer, NEW t \in Tab,
         PostConnect(t) \/ ListFails(t) \/ ListServers(t) \/ Unreachable(t)
  PROVE  CardIsForServer'
<1>1. UNCHANGED <<record, onHub, job>>
  BY DEF PostConnect, ListFails, ListServers, Unreachable, hub
<1>2. request \in [Tab -> Requests]
  BY DEF OneInv, Inv, ConnectTypeOK, Requests
<1>3. ASSUME NEW u \in Tab, request'[u].at = "find", request'[u].replaces
      PROVE  request'[u].server = LinkedServer
  <2>1. CASE u # t
    <3>1. request'[u] = request[u]
      BY <1>2, <2>1 DEF PostConnect, ListFails, ListServers, Unreachable
    <3> QED BY <1>3, <3>1 DEF CardIsForServer
  <2>2. CASE u = t
    <3>1. ListServers(t)
      BY <1>2, <1>3, <2>2 DEF PostConnect, ListFails, Unreachable, NoRequest
    <3>2. request[t] \in [at: {"list", "find"}, server: Server, replaces: BOOLEAN]
      BY <1>2, <3>1 DEF ListServers, Requests, NoRequest
    <3>3. PICK r : r = (request[t].replaces /\ LinkMatches(t))
      OBVIOUS
    <3>4. request'[t] = [request[t] EXCEPT !.at = "find", !.replaces = r]
      BY <1>2, <3>1, <3>3 DEF ListServers
    <3>5. request'[t].replaces = r /\ request'[t].server = request[t].server
      BY <3>2, <3>4
    <3>6. LinkMatches(t)
      BY <1>3, <2>2, <3>3, <3>5, Zenon
    <3> QED BY <2>2, <3>5, <3>6 DEF LinkMatches
  <2> QED BY <2>1, <2>2
<1> QED BY <1>1, <1>3 DEF CardIsForServer

(* The record is written from the choice as it stood. *)
LEMMA ConnectKeepsCard ==
  ASSUME OneInv, CardIsForServer, NEW t \in Tab, Connect(t) \/ ConnectRefused(t)
  PROVE  CardIsForServer'
<1>1. request' = [request EXCEPT ![t] = NoRequest] /\ request[t].at = "find"
  BY DEF Connect, ConnectRefused
<1>2. request \in [Tab -> Requests]
  BY DEF OneInv, Inv, ConnectTypeOK, Requests
<1>3. \A u \in Tab : request'[u].at = "find" => request'[u] = request[u]
  BY <1>1, <1>2 DEF NoRequest
<1>4. record' # NoRecord /\ record'.replaces => record'.server = LinkedServer
  <2>1. CASE ConnectRefused(t)
    BY <2>1 DEF ConnectRefused
  <2>2. CASE Connect(t)
    <3>1. /\ record'.server = request[t].server
          /\ record'.replaces = request[t].replaces
      BY <2>2 DEF Connect
    <3> QED BY <1>1, <3>1, Zenon DEF CardIsForServer
  <2> QED BY <2>1, <2>2
<1>5. job' = "drop" => onHub'
  BY DEF Connect, ConnectRefused, hub, CardIsForServer
<1> QED BY <1>3, <1>4, <1>5 DEF CardIsForServer

(* Only a choice, the record made of it and the drop itself concern the card. *)
LEMMA NextKeepsCard ==
  ASSUME OneInv, CardIsForServer, [ConnectNext]_connectVars PROVE CardIsForServer'
<1>1. ASSUME UNCHANGED request, record' \in {record, NoRecord}, job' = "drop" => onHub'
      PROVE  CardIsForServer'
  BY <1>1 DEF CardIsForServer
<1>2. CASE UNCHANGED connectVars
  BY <1>1, <1>2 DEF connectVars, CardIsForServer
<1>3. ASSUME NEW t \in Tab,
             PostSignIn(t) \/ TakePin(t) \/ NotApproved(t) \/ SaveToken(t) \/ SaveAnswer(t)
      PROVE  CardIsForServer'
  BY <1>1, <1>3 DEF CardIsForServer, PostSignIn, TakePin, NotApproved, SaveToken, SaveAnswer, hub
<1>4. ASSUME NEW t \in Tab,
             \/ PostConnect(t) \/ ListFails(t) \/ ListServers(t) \/ Unreachable(t)
             \/ Connect(t) \/ ConnectRefused(t)
      PROVE  CardIsForServer'
  BY <1>4, ChooseKeepsCard, ConnectKeepsCard
<1>5. CASE AskPlex \/ NoPlex \/ Wire
  BY <1>1, <1>5 DEF AskPlex, NoPlex, Wire
<1>6. CASE CancelAdd \/ RetryAdd \/ Disconnect \/ Reconnect
  BY <1>1, <1>6 DEF CancelAdd, RetryAdd, Disconnect, Reconnect, Free
<1>7. CASE AddOther \/ OtherEnds \/ RemoveLink \/ EditLink
  BY <1>1, <1>7 DEF AddOther, OtherEnds, RemoveLink, EditLink, hub, CardIsForServer
<1>8. CASE DropReplacedLink
  <2>1. CASE record # NoRecord /\ record.replaces
    <3>1. record \in Records
      BY <2>1 DEF OneInv, Inv, ConnectTypeOK
    <3>2. record' = [record EXCEPT !.replaces = FALSE]
      BY <1>8, <2>1 DEF DropReplacedLink
    <3>3. record'.replaces = FALSE
      BY <3>1, <3>2 DEF Records
    <3> QED BY <1>8, <3>3, Zenon DEF DropReplacedLink, CardIsForServer
  <2>2. CASE ~(record # NoRecord /\ record.replaces)
    BY <1>1, <1>8, <2>2 DEF DropReplacedLink
  <2> QED BY <2>1, <2>2
<1>9. CASE ConnectRestart
  <2>1. \A t \in Tab : request'[t].at = "none"
    BY <1>9 DEF ConnectRestart, NoRequest
  <2>2. UNCHANGED record /\ job' # "drop"
    BY <1>9 DEF ConnectRestart
  <2> QED BY <2>1, <2>2 DEF CardIsForServer
<1> QED BY <1>2, <1>3, <1>4, <1>5, <1>6, <1>7, <1>8, <1>9 DEF ConnectNext

(* In any order of choices, clicks and restarts, the owner's link card goes   *)
(* only once the Hub shows the very Plex it pointed at (_drop_replaced_link). *)
THEOREM CardGoesForItsPlex == ConnectSpec => LinkGoesForPlex
<1>1. ConnectInit => CardIsForServer
  BY DEF ConnectInit, CardIsForServer, NoRequest
<1>2. OneInv /\ CardIsForServer /\ [ConnectNext]_connectVars => CardIsForServer'
  BY NextKeepsCard
<1>3. ASSUME OneInv, CardIsForServer, [ConnectNext]_connectVars, link # "replaced", link' = "replaced"
      PROVE  onHub' /\ record' # NoRecord /\ record'.server = LinkedServer
  <2>1. DropReplacedLink
    BY <1>3 DEF ConnectNext, connectVars, PostSignIn, TakePin, NotApproved, SaveToken, SaveAnswer, PostConnect,
       ListFails, ListServers, Unreachable, Connect, ConnectRefused, AskPlex, NoPlex, Wire,
       CancelAdd, RetryAdd, Disconnect, Reconnect, AddOther, OtherEnds, RemoveLink, EditLink,
       ConnectRestart
  <2>2. record # NoRecord /\ record.replaces
    BY <1>3, <2>1, Zenon DEF DropReplacedLink
  <2>3. record \in Records /\ record' = [record EXCEPT !.replaces = FALSE]
    BY <1>3, <2>1, <2>2 DEF DropReplacedLink, OneInv, Inv, ConnectTypeOK
  <2>4. record' \in Records /\ record'.server = record.server
    BY <2>3 DEF Records
  <2>5. record' # NoRecord
    BY <2>4, NoRecordIsNone DEF Records
  <2>6. record.server = LinkedServer
    BY <1>3, <2>2, Zenon DEF CardIsForServer
  <2>7. onHub'
    BY <1>3, <2>1 DEF DropReplacedLink, CardIsForServer
  <2> QED BY <2>4, <2>5, <2>6, <2>7
<1>4. OneInv /\ CardIsForServer /\ [ConnectNext]_connectVars =>
        [link # "replaced" /\ link' = "replaced" =>
           onHub' /\ record' # NoRecord /\ record'.server = LinkedServer]_connectVars
  BY <1>3
<1> QED BY <1>1, <1>2, <1>4, InvHolds, PTL DEF ConnectSpec, LinkGoesForPlex
==============================================================================
