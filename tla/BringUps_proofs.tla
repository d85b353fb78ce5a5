---------------------------- MODULE BringUps_proofs ----------------------------
(***************************************************************************)
(* What a bring-up promises, for every limit and grace and any number of     *)
(* lost answers, kills and repeats.  A bring-up is of one kind of app from   *)
(* beginning to end, so each invariant speaks of one kind and only the steps *)
(* of that kind are looked at.                                               *)
(***************************************************************************)
EXTENDS BringUps, FiniteSetTheorems, TLAPS

(* The kind of app stays, and only its own steps are taken. *)
LEMMA KindStays == ASSUME [Next]_vars PROVE app' = app
<1>1. CASE UNCHANGED vars  BY <1>1 DEF vars, shared
<1>2. CASE Step
  <2>1. CASE PlainStep \/ AskOwnPlex  BY <2>1 DEF PlainStep, AskOwnPlex
  <2>2. CASE TunnelStep               BY <2>2 DEF TunnelStep
  <2>3. CASE PlexStep                 BY <2>3 DEF PlexStep
  <2>4. CASE JellyfinStep             BY <2>4 DEF JellyfinStep
  <2>5. CASE SeerrStep                BY <2>5 DEF SeerrStep
  <2>6. QED  BY <1>2, <2>1, <2>2, <2>3, <2>4, <2>5 DEF Step
<1>3. CASE World
  <2>1. CASE Boot \/ Crash \/ ComeBack \/ Kill \/ Again
    BY <2>1 DEF Boot, Crash, ComeBack, Kill, Again
  <2>2. CASE TunnelWorld
    BY <2>1, <2>2 DEF TunnelWorld, TunnelUp, LoginRefused, LogMovesOn, TunnelDrops,
                      GluetunCrashes, GluetunComesBack, NewAnswers, shared
  <2>3. CASE PlexWorld
    BY <2>1, <2>3 DEF PlexWorld, CodeExpires, CodeTakes, CodeIsTurnedDown, PlexCrashes,
                      PlexComesBack, shared
  <2>4. CASE JellyfinWorld
    BY <2>1, <2>4 DEF JellyfinWorld, StrangerFinishes, NewLogin, KeyIsRevoked, shared
  <2>5. CASE SeerrWorld
    BY <2>1, <2>5 DEF SeerrWorld, AccountChanges
  <2>6. QED  BY <1>3, <2>1, <2>2, <2>3, <2>4, <2>5 DEF World
<1>4. QED  BY <1>1, <1>2, <1>3 DEF Next

(* Of the VPN, only Gluetun's own steps are taken.                            *)
LEMMA StepsOfVpn == ASSUME Next, app = "vpn" PROVE TunnelStep \/ TunnelWorld
BY DEF Next, Step, World, PlainStep, AskOwnPlex, PlexStep, JellyfinStep, SeerrStep,
       PlexWorld, JellyfinWorld, SeerrWorld

(* Of Plex, only its own.                                                     *)
LEMMA StepsOfPlex == ASSUME Next, app = "plex" PROVE PlexStep \/ PlexWorld
BY DEF Next, Step, World, PlainStep, AskOwnPlex, TunnelStep, JellyfinStep, SeerrStep,
       TunnelWorld, JellyfinWorld, SeerrWorld

(* Of Jellyfin, only its own.                                                 *)
LEMMA StepsOfJellyfin == ASSUME Next, app = "jellyfin" PROVE JellyfinStep \/ JellyfinWorld
BY DEF Next, Step, World, PlainStep, AskOwnPlex, TunnelStep, PlexStep, SeerrStep,
       TunnelWorld, PlexWorld, SeerrWorld

(* Of Seerr, only its own.                                                    *)
LEMMA StepsOfSeerr == ASSUME Next, app = "seerr" PROVE SeerrStep \/ SeerrWorld
BY DEF Next, Step, World, PlainStep, AskOwnPlex, TunnelStep, PlexStep, JellyfinStep,
       TunnelWorld, PlexWorld, JellyfinWorld

------------------------------------------------------------------------------
(* Seerr: once a look has come to the rules, Seerr belongs to a media server; *)
(* it is opened only by a look that has written the rules, or found them.    *)
SeerrInv ==
  app = "seerr" =>
    /\ pc \in {"main", "rules", "initialize"} => type # "unset"
    /\ pc = "initialize" => rules
    /\ open => rules /\ type # "unset"

(* A bring-up of Seerr begins before its rules.                               *)
LEMMA SeerrInvInit == Init => SeerrInv
BY DEF Init, SharedInit, SeerrInit, SeerrInv

(* No step, no lost answer and no kill lets Seerr open ahead of its rules.    *)
LEMMA SeerrInvNext == SeerrInv /\ [Next]_vars => SeerrInv'
<1> SUFFICES ASSUME SeerrInv, [Next]_vars, app' = "seerr" PROVE SeerrInv'
  BY DEF SeerrInv
<1>a. app = "seerr"  BY KindStays
<1>1. CASE UNCHANGED vars
  BY <1>1 DEF SeerrInv, vars, shared, loop, seerrVars
<1>2. CASE SeerrStep
  <2>1. CASE SeerrBegin
    BY <1>a, <2>1 DEF SeerrInv, SeerrBegin, Begin, End, seerrVars
  <2>2. CASE ComposeUp("connect") /\ UNCHANGED seerrVars
    BY <1>a, <2>2 DEF SeerrInv, ComposeUp, GoTo, End, seerrVars
  <2>3. CASE Connect /\ UNCHANGED seerrVars
    BY <1>a, <2>3 DEF SeerrInv, Connect, GoTo, End, seerrVars
  <2>4. CASE TimeIsUp("never_became_ready") /\ UNCHANGED seerrVars
    BY <1>a, <2>4 DEF SeerrInv, TimeIsUp, End, seerrVars
  <2>5. CASE Look("gateway") /\ UNCHANGED seerrVars
    BY <1>a, <2>5 DEF SeerrInv, Look, GoTo, Sleep, seerrVars
  <2>6. CASE BuildSignIn
    BY <1>a, <2>6 DEF SeerrInv, BuildSignIn, GoTo, Sleep, seerrVars
  <2>7. CASE AskSettings
    BY <1>a, <2>7 DEF SeerrInv, AskSettings, GoTo, Sleep, End, Unanswered
  <2>8. CASE Auth
    BY <1>a, <2>8 DEF SeerrInv, Auth, GoTo, Sleep, End, NotNow, TurnedDown, Unanswered
  <2>9. CASE CheckKey
    BY <1>a, <2>9 DEF SeerrInv, CheckKey, GoTo, Sleep, End, NotNow, TurnedDown, Unanswered,
                      seerrVars
  <2>10. CASE WriteRules
    BY <1>a, <2>10 DEF SeerrInv, WriteRules, GoTo, Sleep, End, NotNow, TurnedDown, Unanswered
  <2>11. CASE Initialize
    BY <1>a, <2>11 DEF SeerrInv, Initialize, Sleep, End, NotNow, TurnedDown, Unanswered
  <2>12. QED
    BY <1>2, <2>1, <2>2, <2>3, <2>4, <2>5, <2>6, <2>7, <2>8, <2>9, <2>10, <2>11 DEF SeerrStep
<1>3. CASE SeerrWorld
  BY <1>a, <1>3 DEF SeerrInv, SeerrWorld, Boot, Crash, ComeBack, Kill, Again,
                    AccountChanges, loop, seerrVars
<1>4. QED  BY <1>a, <1>1, <1>2, <1>3, StepsOfSeerr

(* Whatever is lost on the way and wherever Marrquee is killed, nobody can    *)
(* sign in to a Seerr without its rules (_ensure_seerr_setup).                *)
THEOREM SeerrIsNeverOpenBare == Spec => []SeerrOpensWithRules
<1>1. SeerrInv => SeerrOpensWithRules  BY DEF SeerrInv, SeerrOpensWithRules
<1>2. QED  BY <1>1, SeerrInvInit, SeerrInvNext, PTL DEF Spec

------------------------------------------------------------------------------
(* Jellyfin: a key is only asked for after a look that found none, and until  *)
(* it is made nobody else makes one.                                         *)
JellyfinInv ==
  app = "jellyfin" =>
    /\ keys = {} \/ \E k : keys = {k}
    /\ pc = "newkey" => keys = {}

(* There is at most the key of an earlier bring-up to begin with.             *)
LEMMA JellyfinInvInit == Init => JellyfinInv
BY DEF Init, SharedInit, JellyfinInit, JellyfinInv

(* Only CreateKey makes a key, after a look that found none.                  *)
LEMMA JellyfinInvNext == JellyfinInv /\ [Next]_vars => JellyfinInv'
<1> SUFFICES ASSUME JellyfinInv, [Next]_vars, app' = "jellyfin" PROVE JellyfinInv'
  BY DEF JellyfinInv
<1>a. app = "jellyfin"  BY KindStays
<1>1. CASE UNCHANGED vars
  BY <1>1 DEF JellyfinInv, vars, shared, loop, jellyfinVars, jellyfin
<1>2. CASE JellyfinStep
  <2>1. CASE JellyfinBegin
    BY <1>a, <2>1 DEF JellyfinInv, JellyfinBegin, Begin, jellyfin
  <2>2. CASE JellyfinInspect
    BY <1>a, <2>2 DEF JellyfinInv, JellyfinInspect, GoTo, End, jellyfinVars, jellyfin
  <2>3. CASE ComposeUp("poll") /\ UNCHANGED jellyfinVars
    BY <1>a, <2>3 DEF JellyfinInv, ComposeUp, GoTo, End, jellyfinVars, jellyfin
  <2>4. CASE TimeIsUp("never_became_ready") /\ UNCHANGED jellyfinVars
    BY <1>a, <2>4 DEF JellyfinInv, TimeIsUp, End, jellyfinVars, jellyfin
  <2>5. CASE Look("public") /\ UNCHANGED jellyfinVars
    BY <1>a, <2>5 DEF JellyfinInv, Look, GoTo, Sleep, jellyfinVars, jellyfin
  <2>6. CASE AskPublic
    BY <1>a, <2>6 DEF JellyfinInv, AskPublic, GoTo, Sleep, NoAnswer, jellyfin
  <2>7. CASE CheckRecord
    BY <1>a, <2>7 DEF JellyfinInv, CheckRecord, GoTo, End, jellyfinVars, jellyfin
  <2>8. CASE CreateUser
    BY <1>a, <2>8 DEF JellyfinInv, CreateUser, GoTo, End, Sleep, Fallback, Refused, NoAnswer
  <2>9. CASE Complete
    BY <1>a, <2>9 DEF JellyfinInv, Complete, GoTo, End, Sleep, Fallback, Refused, NoAnswer
  <2>10. CASE SignIn
    BY <1>a, <2>10 DEF JellyfinInv, SignIn, GoTo, End, Sleep, Fallback, Refused, NoAnswer,
                       jellyfinVars, jellyfin
  <2>11. CASE ListKeys
    BY <1>a, <2>11 DEF JellyfinInv, ListKeys, GoTo, End, Sleep, Fallback, Refused, NoAnswer,
                       jellyfin
  <2>12. CASE CreateKey
    <3>1. keys = {}  BY <1>a, <2>12 DEF JellyfinInv, CreateKey
    <3>2. keys' = {} \/ \E k : keys' = {k}
      BY <3>1, <2>12 DEF CreateKey
    <3>3. pc' # "newkey"
      BY <2>12 DEF CreateKey, GoTo, End, Sleep, Fallback, Refused, NoAnswer
    <3>4. QED  BY <3>2, <3>3 DEF JellyfinInv
  <2>13. CASE SaveKey
    BY <1>a, <2>13 DEF JellyfinInv, SaveKey, GoTo, End, jellyfin
  <2>14. CASE Finish
    BY <1>a, <2>14 DEF JellyfinInv, Finish, End, jellyfinVars, jellyfin
  <2>15. QED
    BY <1>2, <2>1, <2>2, <2>3, <2>4, <2>5, <2>6, <2>7, <2>8, <2>9, <2>10, <2>11, <2>12,
       <2>13, <2>14 DEF JellyfinStep
<1>3. CASE JellyfinWorld
  BY <1>a, <1>3 DEF JellyfinInv, JellyfinWorld, Boot, Crash, ComeBack, Kill, Again,
                    StrangerFinishes, NewLogin, KeyIsRevoked, shared, loop, jellyfinVars, jellyfin
<1>4. QED  BY <1>a, <1>1, <1>2, <1>3, StepsOfJellyfin

(* However many answers are lost, kills strike and bring-ups are repeated,    *)
(* Marrquee leaves one key in Jellyfin at most (_newest_marrquee_key).        *)
THEOREM OneKeyForEver == Spec => []OneJellyfinKey
<1>1. JellyfinInv => OneJellyfinKey
  <2> SUFFICES ASSUME keys = {} \/ \E k : keys = {k} PROVE Cardinality(keys) <= 1
    BY DEF JellyfinInv, OneJellyfinKey
  <2>1. CASE keys = {}
    <3>1. Cardinality(keys) = 0  BY <2>1, FS_EmptySet
    <3>2. QED  BY <3>1
  <2>2. CASE \E k : keys = {k}
    <3>1. Cardinality(keys) = 1  BY <2>2, FS_Singleton
    <3>2. QED  BY <3>1
  <2>3. QED  BY <2>1, <2>2
<1>2. QED  BY <1>1, JellyfinInvInit, JellyfinInvNext, PTL DEF Spec

------------------------------------------------------------------------------
(* The VPN: between a look that found it healthy and the verdict nobody       *)
(* sleeps, and a tunnel that drops meanwhile has carried traffic just now.   *)
TunnelInv ==
  app = "vpn" =>
    /\ pc # "over" => result = "none"
    /\ tunnel => lately = 0
    /\ pc \in {"status", "place"} => lately <= 1

(* A bring-up begins with a tunnel that is up, or with none.                  *)
LEMMA TunnelInvInit == Init => TunnelInv
BY DEF Init, SharedInit, TunnelInit, TunnelInv

(* From the healthy look to the verdict there is no sleep.                    *)
LEMMA TunnelInvNext == TunnelInv /\ [Next]_vars => TunnelInv'
<1> SUFFICES ASSUME TunnelInv, [Next]_vars, app' = "vpn" PROVE TunnelInv'
  BY DEF TunnelInv
<1>a. app = "vpn"  BY KindStays
<1>1. CASE UNCHANGED vars
  BY <1>1 DEF TunnelInv, vars, shared, loop, tunnelVars, gluetun
<1>2. CASE TunnelStep
  <2>1. CASE Begin("secrets") /\ UNCHANGED tunnelVars
    BY <1>a, <2>1 DEF TunnelInv, Begin, tunnelVars, gluetun
  <2>2. CASE WriteSecrets
    BY <1>a, <2>2 DEF TunnelInv, WriteSecrets, GoTo, End, gluetun
  <2>3. CASE StartGluetun
    BY <1>a, <2>3 DEF TunnelInv, StartGluetun, ComposeUp, GoTo, End
  <2>4. CASE NoTun
    BY <1>a, <2>4 DEF TunnelInv, NoTun, End, tunnelVars, gluetun
  <2>5. CASE Connect /\ UNCHANGED tunnelVars
    BY <1>a, <2>5 DEF TunnelInv, Connect, GoTo, End, tunnelVars, gluetun
  <2>6. CASE TimeIsUp("vpn_not_connected") /\ UNCHANGED tunnelVars
    BY <1>a, <2>6 DEF TunnelInv, TimeIsUp, End, tunnelVars, gluetun
  <2>7. CASE Classify
    BY <1>a, <2>7 DEF TunnelInv, Classify, Healthy, GoTo, End, TunnelSleep, Sleep,
                      tunnelVars, gluetun
  <2>8. CASE AskStatus
    BY <1>a, <2>8 DEF TunnelInv, AskStatus, GoTo, TunnelSleep, Sleep, tunnelVars, gluetun
  <2>9. CASE AskPlace
    BY <1>a, <2>9 DEF TunnelInv, AskPlace, End, TunnelSleep, Sleep, tunnelVars, gluetun
  <2>10. QED
    BY <1>2, <2>1, <2>2, <2>3, <2>4, <2>5, <2>6, <2>7, <2>8, <2>9 DEF TunnelStep
<1>3. CASE TunnelWorld
  <2>1. CASE (Boot \/ Kill \/ Again) /\ UNCHANGED tunnelVars
    BY <1>a, <2>1 DEF TunnelInv, Boot, Kill, Again, Busy, loop, tunnelVars, gluetun
  <2>2. CASE TunnelUp
    BY <1>a, <2>2 DEF TunnelInv, TunnelUp, shared, loop
  <2>3. CASE LoginRefused \/ LogMovesOn \/ NewAnswers
    BY <1>a, <2>3 DEF TunnelInv, LoginRefused, LogMovesOn, NewAnswers, shared, loop, gluetun
  <2>4. CASE TunnelDrops \/ GluetunCrashes \/ GluetunComesBack
    BY <1>a, <2>4 DEF TunnelInv, TunnelDrops, GluetunCrashes, GluetunComesBack, Crash,
                      ComeBack, loop
  <2>5. QED  BY <1>3, <2>1, <2>2, <2>3, <2>4 DEF TunnelWorld
<1>4. QED  BY <1>a, <1>1, <1>2, <1>3, StepsOfVpn

(* Only the last question of a healthy look ends a VPN's bring-up well.       *)
LEMMA VpnIsDone ==
  ASSUME TunnelInv, [Next]_vars, app = "vpn", Busy, result' = "done"
  PROVE  tunnel \/ lately <= 1
<1>1. result = "none"  BY DEF TunnelInv, Busy
<1>2. CASE UNCHANGED vars
  BY <1>1, <1>2 DEF vars, shared, loop
<1>3. CASE TunnelStep
  <2>1. pc = "place"
    BY <1>1, <1>3 DEF TunnelStep, Begin, WriteSecrets, StartGluetun, ComposeUp, NoTun,
       Connect, TimeIsUp, Classify, AskStatus, AskPlace, GoTo, End, TunnelSleep, Sleep
  <2>2. QED  BY <2>1 DEF TunnelInv
<1>4. CASE TunnelWorld
  BY <1>1, <1>4 DEF TunnelWorld, Boot, Kill, Again, TunnelUp, LoginRefused, LogMovesOn,
     TunnelDrops, GluetunCrashes, GluetunComesBack, NewAnswers, Crash, ComeBack, shared, loop
<1>5. QED  BY <1>2, <1>3, <1>4, StepsOfVpn

(* A VPN is reported as protecting the downloads only if its tunnel carried   *)
(* traffic a sleep ago at most (_await_tunnel, classify_tunnel).              *)
THEOREM ProvenTunnelWasUp == Spec => TunnelDoneWasUp
<1>1. TunnelInv /\ [Next]_vars
        => [app = "vpn" /\ Busy /\ result' = "done" => tunnel \/ lately <= 1]_<<shared, tunnelVars>>
  BY VpnIsDone
<1>2. QED  BY <1>1, TunnelInvInit, TunnelInvNext, PTL DEF Spec, TunnelDoneWasUp

------------------------------------------------------------------------------
(* Plex: the claim file is gone wherever a bring-up is over.  Until the one   *)
(* retry the steps of the first attempt are taken, and with the fresh code   *)
(* of the retry the container is claimed, or at work on it for less than     *)
(* Grace, unless the code was spoilt.                                        *)
Waiting == {"poll", "identity", "claimlog"}

PlexSteps ==
  {"begin", "inspect", "claim", "compose", "claim2", "remove", "recompose", "over"}
    \union Waiting

NewlyUnclaimed == since # Never => clock <= since + 1

AtWork ==
  /\ ~logged
  /\ claimed \/ (trying # "no" /\ box = "running")
  /\ trying = "soon" => since = Never
  /\ trying = "now" => up /\ box = "running" /\ NewlyUnclaimed
  /\ pc = "claimlog" => NewlyUnclaimed /\ (claimed \/ up)

PlexInv ==
  app = "plex" =>
    /\ clock \in Nat /\ since \in Nat
    /\ pc \in PlexSteps
    /\ trying \in {"no", "soon", "now"}
    /\ pc # "over" => result = "none"
    /\ pc = "over" => file = "none"
    /\ claimed => trying = "no"
    /\ retried => pc \in Waiting \union {"begin", "over"}
    /\ pc = "remove" => file = "fresh"
    /\ pc = "recompose" => file = "fresh" /\ ~logged /\ box = "none"
    /\ retried /\ ~spoilt /\ pc \in Waiting => AtWork
    /\ result = "plex_not_claimed" => spoilt

(* A bring-up of Plex begins with no retry made and no attempt under way.     *)
LEMMA PlexInvInit == Init => PlexInv
BY BringUpAssumption DEF Init, SharedInit, PlexInit, PlexInv, PlexSteps, Waiting, Never

(* Each step and each event of the container keeps what the retry rests on.   *)
LEMMA PlexInvNext == PlexInv /\ [Next]_vars => PlexInv'
<1> SUFFICES ASSUME PlexInv, [Next]_vars, app' = "plex" PROVE PlexInv'
  BY DEF PlexInv
<1>a. app = "plex"  BY KindStays
<1>b. Never \in Nat /\ Grace \in Nat /\ Grace > 2
  BY BringUpAssumption, PlexAssumption DEF Never
<1> USE DEF PlexInv, PlexSteps, Waiting, AtWork, NewlyUnclaimed
<1>1. CASE UNCHANGED vars
  BY <1>1 DEF vars, shared, loop, server, plexVars, plexServer
<1>2. CASE PlexStep
  <2>1. CASE PlexBegin
    BY <1>a, <1>b, <2>1 DEF PlexBegin, Begin, PlexEnds, End
  <2>2. CASE Inspect
    BY <1>a, <2>2 DEF Inspect, PlexGoTo, PlexEnds, GoTo, End, plexServer, server
  <2>3. CASE FetchClaim
    BY <1>a, <2>3 DEF FetchClaim, PlexEnds, GoTo, End, plexServer, server
  <2>4. CASE PlexCompose
    BY <1>a, <2>4 DEF PlexCompose, ComposeUp, StartsPlex, GoTo, End
  <2>5. CASE PlexTimeIsUp
    BY <1>a, <2>5 DEF PlexTimeIsUp, PlexEnds, End, plexServer, server
  <2>6. CASE PlexLook
    BY <1>a, <1>b, <2>6 DEF PlexLook, PlexGoTo, GoTo, PlexSleep, Sleep, Reached, plexServer, server
  <2>7. CASE AskIdentity
    BY <1>a, <1>b, <2>7 DEF AskIdentity, PlexEnds, PlexGoTo, GoTo, End, PlexSleep, Sleep,
                      Heard, Reached, plexServer, server
  <2>8. CASE ReadClaimLog
    <3> DEFINE first == IF since = Never THEN clock ELSE since
    <3>1. PICK told \in {logged, FALSE} :
            IF told \/ clock - first >= Grace
              THEN /\ UNCHANGED plexServer
                   /\ IF retried THEN PlexEnds("plex_not_claimed")
                      ELSE pc' = "claim2" /\ since' = first /\ UNCHANGED <<result, clock, file, retried>>
              ELSE PlexSleep /\ since' = first /\ UNCHANGED <<file, retried>>
      BY <2>8 DEF ReadClaimLog
    <3>2. pc = "claimlog" /\ UNCHANGED server  BY <2>8 DEF ReadClaimLog
    <3>3. CASE told \/ clock - first >= Grace
      <4>1. retried => spoilt
        <5>1. SUFFICES ASSUME retried, ~spoilt PROVE FALSE  OBVIOUS
        <5>2. ~logged /\ NewlyUnclaimed  BY <1>a, <3>2, <5>1
        <5>3. ~told  BY <5>2, Zenon
        <5>4. clock - first >= Grace  BY <3>3, <5>3
        <5>5. QED  BY <1>a, <1>b, <5>2, <5>4
      <4>2. CASE retried
        BY <1>a, <3>1, <3>2, <3>3, <4>1, <4>2 DEF PlexEnds, End, plexServer
      <4>3. CASE ~retried
        BY <1>a, <3>1, <3>2, <3>3, <4>3 DEF plexServer
      <4>4. QED  BY <4>2, <4>3
    <3>4. CASE ~(told \/ clock - first >= Grace)
      <4>1. PlexSleep /\ since' = first /\ UNCHANGED <<file, retried>>  BY <3>1, <3>4
      <4>2. QED
        BY <1>a, <1>b, <3>2, <4>1 DEF PlexSleep, Sleep, Reached, server
    <3>5. QED  BY <3>3, <3>4
  <2>9. CASE RemovePlex
    BY <1>a, <2>9 DEF RemovePlex, PlexGoTo, PlexEnds, GoTo, End
  <2>10. CASE Recompose
    <3>1. CASE PlexEnds("compose_failed") /\ UNCHANGED <<box, trying, logged, clock, since, claimed, spoilt>>
      BY <1>a, <2>10, <3>1 DEF Recompose, PlexEnds, End
    <3>2. CASE /\ box' = "running" /\ StartsPlex
               /\ pc' = "poll" /\ clock' = clock + 1 /\ since' = Never /\ result' = result
               /\ retried' = TRUE /\ file' = file
      <4>1. /\ pc = "recompose" /\ file = "fresh" /\ ~logged /\ box = "none"
            /\ UNCHANGED <<claimed, spoilt>>
        BY <1>a, <2>10 DEF Recompose
      <4>2. ~logged' /\ trying' \in {"no", "soon"} /\ (claimed \/ trying' = "soon") /\ (claimed => trying' = "no")
        BY <1>a, <3>2, <4>1 DEF StartsPlex
      <4>3. QED  BY <1>a, <1>b, <3>2, <4>1, <4>2
    <3>3. QED  BY <2>10, <3>1, <3>2 DEF Recompose, PlexEnds, End
  <2>11. QED
    BY <1>2, <2>1, <2>2, <2>3, <2>4, <2>5, <2>6, <2>7, <2>8, <2>9, <2>10 DEF PlexStep
<1>3. CASE PlexWorld
  <2>1. CASE (Boot \/ Kill \/ Again) /\ UNCHANGED plexVars
    BY <1>a, <2>1 DEF Boot, Kill, Again, Busy, loop, server, plexVars, plexServer
  <2>2. CASE CodeExpires
    BY <1>a, <2>2 DEF CodeExpires, shared, loop, server, plexServer
  <2>3. CASE CodeTakes
    BY <1>a, <2>3 DEF CodeTakes, shared, loop, server
  <2>4. CASE CodeIsTurnedDown
    BY <1>a, <2>4 DEF CodeIsTurnedDown, loop, server
  <2>5. CASE PlexCrashes
    <3>1. /\ UNCHANGED <<pc, result, clock, since, file, retried, claimed, logged>>
          /\ box = "running" /\ trying' = "no"
      BY <2>5 DEF PlexCrashes, Crash, loop
    <3>2. CASE trying = "no"
      <4>1. (spoilt' => spoilt) /\ (spoilt => spoilt')
        BY <2>5, <3>2 DEF PlexCrashes
      <4>2. QED  BY <1>a, <3>1, <3>2, <4>1
    <3>3. CASE trying # "no"
      <4>1. spoilt'  BY <2>5, <3>3 DEF PlexCrashes
      <4>2. QED  BY <1>a, <3>1, <4>1
    <3>4. QED  BY <3>2, <3>3
  <2>6. CASE PlexComesBack
    BY <1>a, <2>6 DEF PlexComesBack, ComeBack, StartsPlex, loop
  <2>7. QED  BY <1>3, <2>1, <2>2, <2>3, <2>4, <2>5, <2>6 DEF PlexWorld
<1>4. QED  BY <1>a, <1>1, <1>2, <1>3, StepsOfPlex

(* No bring-up of Plex leaves its claim code on the drive (clear_plex_claim). *)
THEOREM ClaimIsCleared == Spec => []NoClaimLeftBehind
<1>1. PlexInv => NoClaimLeftBehind  BY DEF PlexInv, NoClaimLeftBehind
<1>2. QED  BY <1>1, PlexInvInit, PlexInvNext, PTL DEF Spec

(* For every limit, and every Grace longer than an attempt takes, the code    *)
(* that ran out during the download is not what a bring-up fails of.         *)
THEOREM ExpiryIsForgiven == Spec => []ExpiryAloneNeverFails
<1>1. PlexInv => ExpiryAloneNeverFails  BY DEF PlexInv, ExpiryAloneNeverFails
<1>2. QED  BY <1>1, PlexInvInit, PlexInvNext, PTL DEF Spec
------------------------------------------------------------------------------
(* Another server that holds Plex's port from the beginning ends each         *)
(* bring-up in its pre-flight, unless it may be missed there.                 *)
PortInv ==
  app = "plex" /\ other /\ ~LostPreflights =>
    box = "none" /\ pc \in {"begin", "inspect", "over"}

(* Where another server has the port, Plex has no container to begin with.    *)
LEMMA PortInvInit == Init => PortInv
BY DEF Init, SharedInit, PortInv

(* And it gets none, as the pre-flight hears that server.                     *)
LEMMA PortInvNext == PortInv /\ [Next]_vars => PortInv'
<1> SUFFICES ASSUME PortInv, [Next]_vars, app' = "plex", other', ~LostPreflights
             PROVE  box' = "none" /\ pc' \in {"begin", "inspect", "over"}
  BY DEF PortInv
<1>a. app = "plex"  BY KindStays
<1>1. CASE UNCHANGED vars
  BY <1>a, <1>1 DEF PortInv, vars, shared, loop, server
<1>2. CASE PlexStep
  <2>1. other
    BY <1>2 DEF PlexStep, PlexBegin, Inspect, FetchClaim, PlexCompose, PlexTimeIsUp, PlexLook,
                AskIdentity, ReadClaimLog, RemovePlex, Recompose, Begin, ComposeUp, server
  <2>2. box = "none" /\ pc \in {"begin", "inspect", "over"}
    BY <1>a, <2>1 DEF PortInv
  <2>3. CASE PlexBegin
    BY <2>2, <2>3 DEF PlexBegin, Begin, PlexEnds, End, server
  <2>4. CASE Inspect
    BY <2>1, <2>2, <2>4 DEF Inspect, PortAnswers, PortSilent, PlexEnds, End, server
  <2>5. QED
    BY <1>2, <2>2, <2>3, <2>4 DEF PlexStep, FetchClaim, PlexCompose, ComposeUp, PlexTimeIsUp,
       PlexLook, AskIdentity, ReadClaimLog, RemovePlex, Recompose
<1>3. CASE PlexWorld
  <2>1. other
    BY <1>3 DEF PlexWorld, Boot, Kill, Again, CodeExpires, CodeTakes, CodeIsTurnedDown,
                PlexCrashes, PlexComesBack, Crash, ComeBack, shared, server
  <2>2. box = "none" /\ pc \in {"begin", "inspect", "over"}
    BY <1>a, <2>1 DEF PortInv
  <2>3. QED
    BY <1>3, <2>2 DEF PlexWorld, Boot, Kill, Again, CodeExpires, CodeTakes, CodeIsTurnedDown,
       PlexCrashes, PlexComesBack, Crash, ComeBack, Reached, shared, loop, server
<1>4. QED  BY <1>a, <1>1, <1>2, <1>3, StepsOfPlex

(* So a bring-up of Plex that ends well has asked Marrquee's own container.   *)
LEMMA PlexIsDone ==
  ASSUME PlexInv, PortInv, ~LostPreflights, [Next]_vars, app = "plex", Busy, result' = "done"
  PROVE  claimed /\ box = "running"
<1>1. result = "none"  BY DEF PlexInv, Busy
<1>2. CASE UNCHANGED vars
  BY <1>1, <1>2 DEF vars, shared, loop
<1>3. CASE PlexStep
  <2>1. AskIdentity
    <3>1. ~(PlexBegin \/ Inspect \/ FetchClaim)
      BY <1>1 DEF PlexBegin, Inspect, FetchClaim, Begin, PlexEnds, PlexGoTo, GoTo, End
    <3>2. ~(PlexCompose \/ PlexTimeIsUp \/ PlexLook)
      BY <1>1 DEF PlexCompose, ComposeUp, PlexTimeIsUp, PlexLook, PlexEnds, PlexGoTo, GoTo, End,
                  PlexSleep, Sleep
    <3>3. ~(ReadClaimLog \/ RemovePlex \/ Recompose)
      BY <1>1 DEF ReadClaimLog, RemovePlex, Recompose, PlexEnds, PlexGoTo, GoTo, End, PlexSleep,
                  Sleep
    <3>4. QED  BY <1>3, <3>1, <3>2, <3>3 DEF PlexStep
  <2>2. ~other
    BY <2>1 DEF AskIdentity, PortInv
  <2>3. Heard /\ claimed
    BY <1>1, <2>1, <2>2 DEF AskIdentity, PlexGoTo, GoTo, PlexSleep, Sleep
  <2>4. QED  BY <2>3 DEF Heard, Reached
<1>4. CASE PlexWorld
  BY <1>1, <1>4 DEF PlexWorld, Boot, Kill, Again, CodeExpires, CodeTakes, CodeIsTurnedDown,
     PlexCrashes, PlexComesBack, Crash, ComeBack, Busy, shared, loop
<1>5. QED  BY <1>2, <1>3, <1>4, StepsOfPlex

(* Jellyfin: what is about to be saved, or has just been, is a key Jellyfin   *)
(* has; keys are revoked only between two bring-ups.                          *)
KeyInv ==
  app = "jellyfin" =>
    /\ pc # "over" => result = "none"
    /\ saved \in Nat
    /\ \A k \in keys : k \in Nat /\ keys = {k}
    /\ pc = "save" => newest \in keys
    /\ pc = "finish" => saved \in keys

(* To begin with nothing is about to be saved.                                *)
LEMMA KeyInvInit == Init => KeyInv
BY DEF Init, SharedInit, JellyfinInit, KeyInv

(* The last of one number, or of one and zero, is that number. *)
LEMMA LastOfOne == ASSUME NEW k \in Nat PROVE Last({k}) = k /\ Last({k} \union {0}) = k
<1>1. Last({k}) = k
  BY DEF Last
<1>2. \A o \in {k} \union {0} : o <= k
  OBVIOUS
<1>3. \A j \in {k} \union {0} : (\A o \in {k} \union {0} : o <= j) => j = k
  OBVIOUS
<1>4. Last({k} \union {0}) = k
  BY <1>2, <1>3 DEF Last
<1> QED BY <1>1, <1>4

(* The listing names the one key there is; it is saved, and none is revoked.  *)
LEMMA KeyInvNext == KeyInv /\ JellyfinInv /\ [Next]_vars => KeyInv'
<1> SUFFICES ASSUME KeyInv, JellyfinInv, [Next]_vars, app' = "jellyfin" PROVE KeyInv'
  BY DEF KeyInv
<1>a. app = "jellyfin"  BY KindStays
<1> USE DEF KeyInv
<1>1. CASE UNCHANGED vars
  BY <1>1 DEF vars, shared, loop, jellyfinVars, jellyfin
<1>2. CASE JellyfinStep
  <2>1. CASE JellyfinBegin \/ JellyfinInspect
    BY <1>a, <2>1 DEF JellyfinBegin, JellyfinInspect, Begin, GoTo, End, jellyfinVars, jellyfin
  <2>2. CASE ComposeUp("poll") /\ UNCHANGED jellyfinVars
    BY <1>a, <2>2 DEF ComposeUp, GoTo, End, jellyfinVars, jellyfin
  <2>3. CASE TimeIsUp("never_became_ready") /\ UNCHANGED jellyfinVars
    BY <1>a, <2>3 DEF TimeIsUp, End, jellyfinVars, jellyfin
  <2>4. CASE Look("public") /\ UNCHANGED jellyfinVars
    BY <1>a, <2>4 DEF Look, GoTo, Sleep, jellyfinVars, jellyfin
  <2>5. CASE AskPublic
    BY <1>a, <2>5 DEF AskPublic, GoTo, Sleep, NoAnswer, jellyfin
  <2>6. CASE CheckRecord
    BY <1>a, <2>6 DEF CheckRecord, GoTo, End, jellyfinVars, jellyfin
  <2>7. CASE CreateUser
    BY <1>a, <2>7 DEF CreateUser, GoTo, End, Sleep, Fallback, Refused, NoAnswer
  <2>8. CASE Complete
    BY <1>a, <2>8 DEF Complete, GoTo, End, Sleep, Fallback, Refused, NoAnswer
  <2>9. CASE SignIn
    BY <1>a, <2>9 DEF SignIn, GoTo, End, Sleep, Fallback, Refused, NoAnswer, jellyfinVars, jellyfin
  <2>10. CASE ListKeys
    <3>1. UNCHANGED <<keys, saved>> /\ pc \in {"keys", "rekeys"}
      BY <2>10 DEF ListKeys, jellyfin
    <3>2. pc' # "over" => result' = "none"
      BY <1>a, <2>10, <3>1 DEF ListKeys, GoTo, End, Sleep, Fallback, Refused, NoAnswer
    <3>3. pc' # "finish"
      BY <2>10 DEF ListKeys, GoTo, End, Sleep, Fallback, Refused, NoAnswer
    <3>4. pc' = "save" => newest' \in keys
      <4>1. SUFFICES ASSUME pc' = "save" PROVE newest' \in keys
        OBVIOUS
      <4>2. newest' = Newest /\ keys # {}
        BY <2>10, <4>1 DEF ListKeys, GoTo, End, Sleep, Fallback, Refused, NoAnswer
      <4>3. PICK k \in keys : k \in Nat /\ keys = {k}
        BY <1>a, <4>2
      <4>4. Newest = k
        BY <4>3, LastOfOne DEF Newest
      <4> QED BY <4>2, <4>3, <4>4
    <3> QED BY <1>a, <3>1, <3>2, <3>3, <3>4
  <2>11. CASE CreateKey
    <3>1. keys = {} /\ UNCHANGED saved /\ saved \in Nat
      BY <1>a, <2>11 DEF JellyfinInv, CreateKey
    <3>2. keys' = {} \/ keys' = {saved + 1}
      BY <2>11, <3>1, LastOfOne DEF CreateKey
    <3>3. pc' \notin {"save", "finish"} /\ (pc' # "over" => result' = "none")
      BY <1>a, <2>11 DEF CreateKey, GoTo, End, Sleep, Fallback, Refused, NoAnswer
    <3> QED BY <3>1, <3>2, <3>3
  <2>12. CASE SaveKey
    BY <1>a, <2>12 DEF SaveKey, GoTo, End, jellyfin
  <2>13. CASE Finish
    BY <1>a, <2>13 DEF Finish, End, jellyfinVars, jellyfin
  <2>14. QED
    BY <1>2, <2>1, <2>2, <2>3, <2>4, <2>5, <2>6, <2>7, <2>8, <2>9, <2>10, <2>11, <2>12,
       <2>13 DEF JellyfinStep
<1>3. CASE JellyfinWorld
  BY <1>a, <1>3 DEF JellyfinWorld, Boot, Crash, ComeBack, Kill, Again, Busy,
                    StrangerFinishes, NewLogin, KeyIsRevoked, shared, loop, jellyfinVars, jellyfin
<1>4. QED  BY <1>a, <1>1, <1>2, <1>3, StepsOfJellyfin

(* A bring-up of Jellyfin ends well by its saved key, or by a new one.        *)
LEMMA JellyfinIsDone ==
  ASSUME KeyInv, [Next]_vars, app = "jellyfin", Busy, result' = "done"
  PROVE  saved \in keys
<1>1. result = "none"  BY DEF KeyInv, Busy
<1>2. CASE UNCHANGED vars
  BY <1>1, <1>2 DEF vars, shared, loop
<1>3. CASE JellyfinStep
  <2>1. CheckRecord \/ Finish
    <3>1. ~(\/ JellyfinBegin \/ JellyfinInspect \/ ComposeUp("poll")
            \/ TimeIsUp("never_became_ready") \/ Look("public"))
      BY <1>1 DEF JellyfinBegin, JellyfinInspect, Begin, ComposeUp, TimeIsUp, Look, GoTo, End, Sleep
    <3>2. ~(AskPublic \/ CreateUser \/ Complete \/ SignIn)
      BY <1>1 DEF AskPublic, CreateUser, Complete, SignIn, GoTo, End, Sleep, Fallback, Refused,
                  NoAnswer
    <3>3. ~(ListKeys \/ CreateKey \/ SaveKey)
      BY <1>1 DEF ListKeys, CreateKey, SaveKey, GoTo, End, Sleep, Fallback, Refused, NoAnswer
    <3>4. QED  BY <1>3, <3>1, <3>2, <3>3 DEF JellyfinStep
  <2>2. CASE CheckRecord
    BY <1>1, <2>2 DEF CheckRecord, GoTo
  <2>3. CASE Finish
    BY <2>3 DEF Finish, KeyInv
  <2>4. QED  BY <2>1, <2>2, <2>3
<1>4. CASE JellyfinWorld
  BY <1>1, <1>4 DEF JellyfinWorld, Boot, Crash, ComeBack, Kill, Again, Busy, StrangerFinishes,
     NewLogin, KeyIsRevoked, shared, loop
<1>5. QED  BY <1>2, <1>3, <1>4, StepsOfJellyfin

(* Where no pre-flight misses a server that holds the port, a media server is *)
(* reported as up only if it is the owner's: Plex claimed and in Marrquee's   *)
(* container, Jellyfin with a saved key it takes, whatever was lost or killed *)
(* on the way (_run_plex_bring_up, ensure_jellyfin_admin).                    *)
THEOREM MediaServerIsTheOwners == ~LostPreflights => (Spec => MediaServerIsOurs)
<1>1. SUFFICES ASSUME ~LostPreflights PROVE Spec => MediaServerIsOurs
  OBVIOUS
<1>2. PlexInv /\ PortInv /\ KeyInv /\ [Next]_vars =>
        [Busy /\ result' = "done" =>
           /\ (app = "plex" => claimed /\ box = "running")
           /\ (app = "jellyfin" => saved \in keys)]_vars
  BY <1>1, PlexIsDone, JellyfinIsDone
<1>3. KeyInv /\ JellyfinInv /\ [Next]_vars => KeyInv'
  BY KeyInvNext
<1>4. QED
  BY <1>2, <1>3, PlexInvInit, PlexInvNext, PortInvInit, PortInvNext, KeyInvInit,
     JellyfinInvInit, JellyfinInvNext, PTL DEF Spec, MediaServerIsOurs
==============================================================================
