----------------------------- MODULE PlexConnect -----------------------------
(* How the owner's own Plex comes to the Hub and leaves it (routes/plex.py,   *)
(* plex.py, and of deploy.py the parts about an app that is not ours to       *)
(* start): signing in with a pin of plex.tv, choosing a server, the record    *)
(* existing_plex.json, and the link card the new poster takes the place of.   *)
(*                                                                            *)
(* Each browser tab makes one request at a time; a request gives way at every *)
(* call of plex.tv or of a Plex, and the tabs, the manager's run and the      *)
(* owner's other clicks interleave there.  Of all other apps one stands for   *)
(* the rest; what wiring does in that Plex is WiringEngine's.                 *)
EXTENDS Naturals

CONSTANTS
  Tab,            \* the owner's browser tabs
  Server,         \* the Plex servers of the owner's account
  LinkedServer,   \* the one the owner's link card points at
  NoRecord,       \* there is no existing_plex.json
  NoServer,       \* no server has been chosen
  OneConnect      \* TRUE: a server is chosen only while no other choice is
                  \* under way, being added, or waiting as a failed add

ASSUME LinkedServerIsServer == LinkedServer \in Server
ASSUME NoRecordIsNone ==
  NoRecord \notin [server: Server, replaces: BOOLEAN] /\ NoServer \notin Server
ASSUME OneConnectIsBoolean == OneConnect \in BOOLEAN

VARIABLES
  token,    \* plex.json holds a token
  answer,   \* answers.json says Plex is signed in
  pin,      \* what each tab's sign-in waits for, and what it is for
  request,  \* how far each tab's POST /plex/connect is
  record,   \* existing_plex.json
  link,     \* the link card
  onHub,    \* the owner's Plex is among the Hub's apps
  rival,    \* a Plex of ours is
  adding,   \* what the Hub shows as being added
  job       \* where the manager's task is

connectVars == <<token, answer, pin, request, record, link, onHub, rival, adding, job>>
hub == <<onHub, rival, adding, job>>
signIn == <<token, answer, pin>>

NoPin == [at |-> "none", then |-> "hub"]
NoRequest == [at |-> "none", server |-> NoServer, replaces |-> FALSE]
Records == [server: Server, replaces: BOOLEAN]

ConnectInit ==
  /\ token = FALSE /\ answer = FALSE
  /\ pin = [t \in Tab |-> NoPin]
  /\ request = [t \in Tab |-> NoRequest]
  /\ record = NoRecord
  /\ link = "there"
  /\ onHub = FALSE /\ rival = FALSE
  /\ adding = "none"
  /\ job = "none"

(* The manager takes nothing up while it works, or shows an add that failed. *)
Free == adding = "none" /\ job = "none"

(* Neither the owner's Plex nor ours is on the Hub. *)
Offered == ~onHub /\ ~rival

-----------------------------------------------------------------------------
(* Signing in. *)

(* post_plex_sign_in: plex.tv makes a pin, which the store keeps. *)
PostSignIn(t) ==
  /\ pin[t].at = "none"
  /\ Offered
  /\ \E then \in {"hub", "connect"}: pin' = [pin EXCEPT ![t] = [at |-> "stored", then |-> then]]
  /\ UNCHANGED <<token, answer, request, record, link, hub>>

(* get_plex_signed_in takes the pin out of the store, also when it is too old. *)
TakePin(t) ==
  /\ pin[t].at = "stored"
  /\ pin' \in {[pin EXCEPT ![t].at = "taken"], [pin EXCEPT ![t] = NoPin]}
  /\ UNCHANGED <<token, answer, request, record, link, hub>>

(* Mutant of NotApproved: the answer is saved although there is no token. *)
NotApprovedGoesOn(t) ==
  /\ pin[t].at = "taken"
  /\ pin' = [pin EXCEPT ![t].at = "half"]
  /\ UNCHANGED <<token, answer, request, record, link, hub>>

(* plex.tv has no token or no name for it. *)
NotApproved(t) ==
  /\ pin[t].at = "taken"
  /\ pin' = [pin EXCEPT ![t] = NoPin]
  /\ UNCHANGED <<token, answer, request, record, link, hub>>

(* The token first; the answer after it, and none when it is for a connect. *)
SaveToken(t) ==
  /\ pin[t].at = "taken"
  /\ token' = TRUE
  /\ pin' = IF pin[t].then = "connect" THEN [pin EXCEPT ![t] = NoPin]
                                       ELSE [pin EXCEPT ![t].at = "half"]
  /\ UNCHANGED <<answer, request, record, link, hub>>

SaveAnswer(t) ==
  /\ pin[t].at = "half"
  /\ answer' = TRUE
  /\ pin' = [pin EXCEPT ![t] = NoPin]
  /\ UNCHANGED <<token, request, record, link, hub>>

-----------------------------------------------------------------------------
(* Choosing a server. *)

(* post_plex_connect, up to its first call of plex.tv. *)
PostConnect(t) ==
  /\ request[t].at = "none"
  /\ Offered
  /\ OneConnect => adding \notin {"connect", "failed"} /\ \A u \in Tab: request[u].at = "none"
  /\ \E s \in Server, replaces \in BOOLEAN:
       request' = [request EXCEPT ![t] = [at |-> "list", server |-> s, replaces |-> replaces]]
  /\ UNCHANGED <<signIn, record, link, hub>>

(* Not signed in, or plex.tv does not answer, or no longer has that server. *)
ListFails(t) ==
  /\ request[t].at = "list"
  /\ request' = [request EXCEPT ![t] = NoRequest]
  /\ UNCHANGED <<signIn, record, link, hub>>

(* The card there is now is one for the chosen server. *)
LinkMatches(t) == link = "there" /\ request[t].server = LinkedServer

(* account_plex_servers names the server; the cards are read along with it. *)
ListServers(t) ==
  /\ request[t].at = "list"
  /\ token
  /\ request' = [request EXCEPT ![t].at = "find",
                                ![t].replaces = @ /\ LinkMatches(t)]
  /\ UNCHANGED <<signIn, record, link, hub>>

(* find_connection: no address of the server's answers in its name. *)
Unreachable(t) ==
  /\ request[t].at = "find"
  /\ request' = [request EXCEPT ![t] = NoRequest]
  /\ UNCHANGED <<signIn, record, link, hub>>

(* find_connection has an address: the record is saved, and the add started. *)
Connect(t) ==
  /\ request[t].at = "find"
  /\ Free /\ Offered
  /\ record' = [server |-> request[t].server, replaces |-> request[t].replaces]
  /\ adding' = "connect"
  /\ job' = "ask"
  /\ request' = [request EXCEPT ![t] = NoRequest]
  /\ UNCHANGED <<signIn, link, onHub, rival>>

(* Mutant of ConnectRefused: the record is left there. *)
ConnectRefusedKeeps(t) ==
  /\ request[t].at = "find"
  /\ ~(Free /\ Offered)
  /\ record' = [server |-> request[t].server, replaces |-> request[t].replaces]
  /\ request' = [request EXCEPT ![t] = NoRequest]
  /\ UNCHANGED <<signIn, link, hub>>

(* add_app refuses: the record goes again, whichever it was. *)
ConnectRefused(t) ==
  /\ request[t].at = "find"
  /\ ~(Free /\ Offered)
  /\ record' = NoRecord
  /\ request' = [request EXCEPT ![t] = NoRequest]
  /\ UNCHANGED <<signIn, link, hub>>

-----------------------------------------------------------------------------
(* The run. *)

(* Mutant of AskPlex: the link goes as soon as the server has answered. *)
AskPlexAndDropLink ==
  /\ job = "ask"
  /\ record # NoRecord
  /\ job' = "wire"
  /\ link' = IF record.replaces /\ link # "removed" THEN "replaced" ELSE link
  /\ UNCHANGED <<signIn, request, record, onHub, rival, adding>>

(* The server at the saved address is the one that was chosen. *)
AskPlex ==
  /\ job = "ask"
  /\ record # NoRecord
  /\ job' = "wire"
  /\ UNCHANGED <<signIn, request, record, link, onHub, rival, adding>>

(* There is no record, no answer, or another server's. *)
NoPlex ==
  /\ job = "ask"
  /\ adding' = "failed"
  /\ job' = "none"
  /\ UNCHANGED <<signIn, request, record, link, onHub, rival>>

(* Wiring never fails a run; a connect goes on once the Hub shows its poster. *)
Wire ==
  /\ job = "wire"
  /\ job' = IF adding = "connect" THEN "drop" ELSE "none"
  /\ onHub' = TRUE
  /\ adding' = "none"
  /\ UNCHANGED <<signIn, request, record, link, rival>>

(* _drop_replaced_link. *)
DropReplacedLink ==
  /\ job = "drop"
  /\ job' = "none"
  /\ IF record # NoRecord /\ record.replaces
       THEN /\ link' = IF link = "removed" THEN link ELSE "replaced"
            /\ record' = [record EXCEPT !.replaces = FALSE]
       ELSE UNCHANGED <<link, record>>
  /\ UNCHANGED <<signIn, request, onHub, rival, adding>>

-----------------------------------------------------------------------------
(* What else the owner may ask of the manager. *)

(* Mutant of CancelAdd: whatever was being added, the record goes. *)
CancelAddOfAny ==
  /\ job = "none"
  /\ adding \in {"failed", "other_failed"}
  /\ record' = NoRecord
  /\ adding' = "none"
  /\ UNCHANGED <<signIn, request, link, onHub, rival, job>>

(* Cancel of a failed add takes the record along when the add was of Plex. *)
CancelAdd ==
  /\ job = "none"
  /\ adding \in {"failed", "other_failed"}
  /\ record' = IF adding = "failed" THEN NoRecord ELSE record
  /\ adding' = "none"
  /\ UNCHANGED <<signIn, request, link, onHub, rival, job>>

RetryAdd ==
  /\ job = "none"
  /\ \/ adding = "failed" /\ adding' = "connect" /\ job' = "ask"
     \/ adding = "other_failed" /\ adding' = "other" /\ job' = "other"
  /\ UNCHANGED <<signIn, request, record, link, onHub, rival>>

(* disconnect, of a Plex no other app needs. *)
Disconnect ==
  /\ Free
  /\ onHub
  /\ onHub' = FALSE
  /\ record' = NoRecord
  /\ UNCHANGED <<signIn, request, link, rival, adding, job>>

Reconnect ==
  /\ Free
  /\ onHub
  /\ adding' = "reconnect"
  /\ job' = "wire"
  /\ UNCHANGED <<signIn, request, record, link, onHub, rival>>

AddOther ==
  /\ Free
  /\ adding' = "other"
  /\ job' = "other"
  /\ UNCHANGED <<signIn, request, record, link, onHub, rival>>

(* The other app may be a Plex of ours, where the owner's is not on the Hub. *)
OtherEnds ==
  /\ job = "other"
  /\ job' = "none"
  /\ \/ adding' = "none" /\ (rival' = rival \/ (rival' = TRUE /\ ~onHub))
     \/ adding' = "other_failed" /\ UNCHANGED rival
  /\ UNCHANGED <<signIn, request, record, link, onHub>>

(* The owner removes the card by hand. *)
RemoveLink ==
  /\ link \in {"there", "elsewhere"}
  /\ link' = "removed"
  /\ UNCHANGED <<signIn, request, record, hub>>

(* Or gives it another address; it keeps its id. *)
EditLink ==
  /\ link = "there"
  /\ link' = "elsewhere"
  /\ UNCHANGED <<signIn, request, record, hub>>

(* A new process: requests and pins are forgotten, what the snapshot shows as *)
(* going is begun again, and a run that had only the link to drop is not.     *)
ConnectRestart ==
  /\ pin' = [t \in Tab |-> NoPin]
  /\ request' = [t \in Tab |-> NoRequest]
  /\ job' = CASE adding = "connect" -> "ask"
              [] adding = "reconnect" -> "wire"
              [] adding = "other" -> "other"
              [] OTHER -> "none"
  /\ UNCHANGED <<token, answer, record, link, onHub, rival, adding>>

ConnectNext ==
  \/ \E t \in Tab: \/ PostSignIn(t) \/ TakePin(t) \/ NotApproved(t)
                   \/ SaveToken(t) \/ SaveAnswer(t)
                   \/ PostConnect(t) \/ ListFails(t) \/ ListServers(t)
                   \/ Unreachable(t) \/ Connect(t) \/ ConnectRefused(t)
  \/ AskPlex \/ NoPlex \/ Wire \/ DropReplacedLink
  \/ CancelAdd \/ RetryAdd \/ Disconnect \/ Reconnect
  \/ AddOther \/ OtherEnds \/ RemoveLink \/ EditLink \/ ConnectRestart

ConnectSpec == ConnectInit /\ [][ConnectNext]_connectVars

-----------------------------------------------------------------------------
(* Every variable keeps a value of its type. *)
ConnectTypeOK ==
  /\ token \in BOOLEAN /\ answer \in BOOLEAN
  /\ pin \in [Tab -> [at: {"none", "stored", "taken", "half"}, then: {"hub", "connect"}]]
  /\ request \in [Tab -> [at: {"list", "find"}, server: Server, replaces: BOOLEAN]
                           \cup {NoRequest}]
  /\ record \in Records \cup {NoRecord}
  /\ link \in {"there", "elsewhere", "removed", "replaced"}
  /\ onHub \in BOOLEAN /\ rival \in BOOLEAN
  /\ adding \in {"none", "connect", "failed", "reconnect", "other", "other_failed"}
  /\ job \in {"none", "ask", "wire", "drop", "other"}

(* A Plex on the Hub, on its way there, or waiting for "Try again" has the    *)
(* record with its address and token: without it no retry and no wiring can   *)
(* ever succeed (_bring_up_existing_plex, _existing_plex_precheck).           *)
HubPlexHasItsRecord ==
  onHub \/ adding \in {"connect", "failed", "reconnect"} => record # NoRecord

(* The record, which holds a token of the owner's Plex, is kept no longer     *)
(* than a Plex the Hub shows: no refused connect, no Cancel and no disconnect *)
(* leaves it behind (_plex_connect_refusal: "nothing is ever saved").         *)
NoRecordWithoutPlex ==
  record # NoRecord => onHub \/ adding \in {"connect", "failed"}

(* The owner's link card goes only once the Hub has the Plex it pointed at    *)
(* (_drop_replaced_link: "a failed connect never touches it").                *)
LinkGoesForPlex ==
  [][link # "replaced" /\ link' = "replaced" =>
       onHub' /\ record' # NoRecord /\ record'.server = LinkedServer]_connectVars

(* A card that points elsewhere by then is none to be replaced: what          *)
(* link_matches_plex refuses ("risks offering to replace the wrong card").    *)
EditedLinkStays == [][link = "elsewhere" => link' # "replaced"]_connectVars

(* "An answer can never exist without" a token (get_plex_signed_in), wherever *)
(* a restart strikes: the claim of a new Plex rests on both.                  *)
AnswerHasToken == answer => token
==============================================================================
