---------------------------- MODULE ProfileAccess ----------------------------
(***************************************************************************)
(* How a window keeps, loses and regains its admission to the active       *)
(* profile: proxy.ts over lib/profile-context.ts and                       *)
(* lib/local-session-token.ts at the gate, the profile routes and          *)
(* lib/profile-request.ts behind it, and lib/local-api-client.ts with      *)
(* app/components/profile-manager.tsx in the window.                       *)
(*                                                                         *)
(* A binding is a profile with a registry generation.  The windows of a    *)
(* browser share one cookie, signed for a binding by the running server;   *)
(* each document pins the binding it first used and sends it as a header.  *)
(* A request passes the gate and is handled later: between the two other   *)
(* requests are handled.  A handler's own check and what follows it up to  *)
(* its next await is one step, as the server runs one handler at a time.   *)
(***************************************************************************)
EXTENDS Naturals, FiniteSets

CONSTANTS
  Windows,
  Profiles,
  None,
  MaxGeneration,  \* bound on the registry generation
  MaxMishaps      \* bound on changes that fail halfway, aborted calls and restarts

VARIABLES
  desktop,   \* whether the startup link admits once (the desktop app) or always
  registry,  \* [generation, active]; generation 0 is the workspace before profiles
  journal,   \* the generation operation-recovery.json expects, or None
  linkUsed,  \* the startup link was used in this server's life
  cookie,    \* the binding the browser's cookie is signed for, or None
  page,      \* window -> its document
  call,      \* window -> its request in flight, or None
  lost,      \* history: an answer that moves the binding did not reach its page
  mishaps

accessVars == <<desktop, registry, journal, linkUsed, cookie, page, call, lost, mishaps>>

Legacy == "legacy"
Binding == [profile : Profiles \cup {Legacy}, generation : 0..MaxGeneration]
Current == [profile |-> registry.active, generation |-> registry.generation]
NoDocument == [open |-> FALSE, doc |-> None, shows |-> None, view |-> None,
               asked |-> FALSE, switching |-> FALSE]
Document == [NoDocument EXCEPT !.open = TRUE]

Kinds == {"list", "work", "setup", "change", "switch", "recover"}
Views == [generation : 0..MaxGeneration, recovery : BOOLEAN]
Documents == [open : BOOLEAN, doc : Binding \cup {None}, shows : Profiles \cup {Legacy, None},
              view : Views \cup {None}, asked : BOOLEAN, switching : BOOLEAN]
Calls == [kind : Kinds, at : {"sent", "admitted", "working", "answered"}, header : Binding,
          cookie : Binding \cup {None}, abandoned : BOOLEAN, expected : 0..MaxGeneration,
          view : Views \cup {None}, binding : Binding \cup {None}]

(* What profileStatusDto tells a page.                                     *)
View == [generation |-> registry'.generation, recovery |-> journal' # None]

Working == {w \in Windows : call[w] # None /\ call[w].at = "working"}

-----------------------------------------------------------------------------
(* The gate.  Evidence of an operation that no longer fits the registry    *)
(* lets nothing through.                                                   *)
EvidenceFits ==
  journal # None /\ registry.generation > 0 => registry.generation - journal \in {0, 1}

(* recoveryProfileSessionBindings                                          *)
RecoveryBindings ==
  IF journal = None THEN {}
  ELSE IF registry.generation = 0 THEN {Current}
  ELSE {Current,
        IF journal = 0 THEN [profile |-> Legacy, generation |-> 0]
        ELSE [profile |-> registry.active, generation |-> journal],
        IF journal = 0 THEN Current
        ELSE [profile |-> registry.active, generation |-> journal + 1]}

(* verifyLocalSessionToken                                                 *)
SignedFor(token, binding) == token = binding

(* The header names an accepted binding and the cookie is signed for it;   *)
(* while Recovery pends only the list and the recovery itself pass.        *)
Admits(c) ==
  /\ EvidenceFits
  /\ journal # None => c.kind \in {"list", "recover"}
  /\ c.header \in IF journal # None THEN RecoveryBindings ELSE {Current}
  /\ SignedFor(c.cookie, c.header)

(* The page itself: its cookie must be signed for the current binding.     *)
GateOpens(token) == EvidenceFits /\ SignedFor(token, Current)

-----------------------------------------------------------------------------
(* Windows.                                                                *)
AccessInit ==
  /\ desktop \in BOOLEAN
  /\ registry \in {[generation |-> 0, active |-> Legacy]} \cup
                  {[generation |-> 1, active |-> p] : p \in Profiles}
  /\ journal = None /\ cookie = None
  /\ linkUsed = FALSE /\ lost = FALSE /\ mishaps = 0
  /\ page = [w \in Windows |-> NoDocument]
  /\ call = [w \in Windows |-> None]

(* A document that is replaced while its request is in flight never hears  *)
(* the answer; the server handles the request all the same.                *)
Abandon(w) ==
  /\ IF call[w] = None \/ call[w].abandoned THEN UNCHANGED <<call, mishaps, lost>>
     ELSE /\ mishaps < MaxMishaps /\ mishaps' = mishaps + 1
          /\ call' = [call EXCEPT ![w].abandoned = TRUE]
          /\ lost' = (lost \/ call[w].kind \notin {"list", "work"})

(* The desktop app has one window.                                         *)
Alone(w) == desktop => \A o \in Windows \ {w} : ~page[o].open

(* The verifier of the desktop app's link consumes it.                     *)
LinkAdmits == ~(desktop /\ linkUsed)

(* The startup link, from the bootstrap page.                              *)
OpenLink(w) ==
  /\ Alone(w) /\ ~page[w].open /\ LinkAdmits /\ EvidenceFits
  /\ cookie' = Current
  /\ linkUsed' = TRUE
  /\ page' = [page EXCEPT ![w] = Document]
  /\ UNCHANGED <<desktop, registry, journal, call, lost, mishaps>>

(* A page is opened or reloaded; without a valid cookie the gate answers   *)
(* with its own message.                                                   *)
Reload(w) ==
  /\ cookie # None /\ Alone(w)
  /\ Abandon(w)
  /\ page' = [page EXCEPT ![w] = IF GateOpens(cookie) THEN Document ELSE NoDocument]
  /\ UNCHANGED <<desktop, registry, journal, linkUsed, cookie>>

SeesRecovery(w) == IF page[w].view = None THEN FALSE ELSE page[w].view.recovery

(* The first request of a document pins the binding of the cookie.         *)
Pinned(w) == IF page[w].doc = None THEN cookie ELSE page[w].doc

(* What the page and its dialog offer: the list first; while a Recovery    *)
(* shows nothing else; a setup before there are profiles, then the rest.   *)
Offers(w, kind) ==
  LET view == page[w].view IN
  /\ page[w].open /\ call[w] = None /\ ~page[w].switching
  /\ kind = "list" <=> ~page[w].asked
  /\ kind # "list" => (kind = "recover" <=> SeesRecovery(w))
  /\ kind \in {"setup", "change", "switch"} => view # None /\ (kind = "setup" <=> view.generation = 0)

(* localApiFetch, with the generation the page last saw in its body.       *)
Request(w, kind) ==
  [kind |-> kind, at |-> "sent", header |-> Pinned(w), cookie |-> cookie, abandoned |-> FALSE,
   expected |-> IF page[w].view = None THEN 0 ELSE page[w].view.generation,
   view |-> None, binding |-> None]

Send(w, kind) ==
  /\ Offers(w, kind) /\ Pinned(w) # None
  /\ page' = [page EXCEPT ![w].doc = Pinned(w), ![w].asked = TRUE,
                          ![w].shows = IF page[w].doc = None THEN cookie.profile ELSE @,
                          ![w].switching = kind \in {"setup", "switch"}]
  /\ call' = [call EXCEPT ![w] = Request(w, kind)]
  /\ UNCHANGED <<desktop, registry, journal, linkUsed, cookie, lost, mishaps>>

(* The answer: its cookie, then the page adopts the binding and what the   *)
(* answer lists.  A switch, a setup and a recovery go on to a reload.      *)
Receive(w) ==
  /\ call[w] # None /\ call[w].at = "answered"
  /\ call' = [call EXCEPT ![w] = None]
  /\ IF call[w].abandoned THEN UNCHANGED <<cookie, page>>
     ELSE LET c == call[w] IN
       /\ cookie' = IF c.binding = None THEN cookie ELSE c.binding
       /\ page' = [page EXCEPT
            ![w].doc = IF c.binding = None THEN @ ELSE c.binding,
            ![w].view = IF c.view = None \/ c.kind = "switch" THEN @ ELSE c.view,
            ![w].switching = c.binding # None /\ c.kind \in {"setup", "switch", "recover"}]
  /\ UNCHANGED <<desktop, registry, journal, linkUsed, lost, mishaps>>

-----------------------------------------------------------------------------
(* The server.                                                             *)
Answer(w, view, binding) ==
  call' = [call EXCEPT ![w].at = "answered", ![w].view = view, ![w].binding = binding]
Refuse(w) == Answer(w, None, None) /\ UNCHANGED <<registry, journal, lost, mishaps>>

Gate(w) ==
  /\ call[w] # None /\ call[w].at = "sent"
  /\ IF Admits(call[w])
     THEN call' = [call EXCEPT ![w].at = "admitted"] /\ UNCHANGED <<registry, journal, lost, mishaps>>
     ELSE Refuse(w)
  /\ UNCHANGED <<desktop, linkUsed, cookie, page>>

(* profileBindingFromRequest and recoveryProfileBindingFromRequest         *)
BoundNow(w) == call[w].header = Current
BoundForRecovery(w) == EvidenceFits /\ call[w].header \in RecoveryBindings

(* Variant: a change does not look for operations that run.                *)
ReadyBesideWork == journal = None

(* requireMutationReady                                                    *)
MutationReady == journal = None /\ Working = {}

List(w) ==
  /\ call[w].kind = "list"
  /\ UNCHANGED <<registry, journal, lost, mishaps>>
  /\ IF IF journal = None THEN BoundNow(w) ELSE BoundForRecovery(w)
     THEN Answer(w, View, None) ELSE Answer(w, None, None)

(* withProfileRequest: the operation is registered with its check.         *)
BeginWork(w) ==
  /\ call[w].kind = "work"
  /\ UNCHANGED <<registry, journal, lost, mishaps>>
  /\ IF BoundNow(w) THEN call' = [call EXCEPT ![w].at = "working"] ELSE Answer(w, None, None)

(* A switch has no journal: it happens or it does not.                     *)
Switch(w) ==
  /\ call[w].kind = "switch"
  /\ \/ /\ BoundNow(w) /\ MutationReady
        /\ call[w].expected = registry.generation /\ registry.generation < MaxGeneration
        /\ \E p \in Profiles \ {registry.active} :
             registry' = [generation |-> registry.generation + 1, active |-> p]
        /\ UNCHANGED <<journal, lost, mishaps>>
        /\ Answer(w, View, Current')
     \/ Refuse(w)

(* Create, restore, reset and delete journal the generation the body       *)
(* carries; a rename has no journal.  With committed the registry moved,   *)
(* with cleared the journal is gone, with told the answer has the binding. *)
Changed(w, p, committed, cleared, told) ==
  /\ committed => call[w].expected = registry.generation /\ registry.generation < MaxGeneration
  /\ cleared => committed
  /\ told => committed
  /\ registry' = IF committed THEN [generation |-> registry.generation + 1, active |-> p] ELSE registry
  /\ journal' = IF cleared THEN None ELSE call[w].expected
  /\ IF cleared THEN told /\ mishaps' = mishaps
     ELSE mishaps < MaxMishaps /\ mishaps' = mishaps + 1
  /\ lost' = (lost \/ (committed /\ ~told))
  /\ IF told THEN Answer(w, View, Current') ELSE Answer(w, None, None)

Change(w) ==
  /\ call[w].kind = "change"
  /\ \/ /\ BoundNow(w) /\ MutationReady
        /\ \E committed, cleared, told \in BOOLEAN :
             Changed(w, registry.active, committed, cleared, told)
     \/ Refuse(w)

SetUp(w) ==
  /\ call[w].kind = "setup"
  /\ \/ /\ BoundNow(w) /\ MutationReady /\ registry.generation = 0
        /\ \E p \in Profiles, committed, cleared \in BOOLEAN :
             Changed(w, p, committed, cleared, cleared)
     \/ Refuse(w)

(* The journal's operation is finished or undone; only a setup need not    *)
(* name the generation it found.                                           *)
Recover(w) ==
  /\ call[w].kind = "recover"
  /\ \/ /\ BoundForRecovery(w) /\ Working = {}
        /\ journal # 0 => call[w].expected = registry.generation
        /\ journal' = None
        /\ UNCHANGED <<registry, lost, mishaps>>
        /\ Answer(w, View, Current)
     \/ Refuse(w)

Handle(w) ==
  /\ call[w] # None /\ call[w].at = "admitted"
  /\ List(w) \/ BeginWork(w) \/ Switch(w) \/ Change(w) \/ SetUp(w) \/ Recover(w)
  /\ UNCHANGED <<desktop, linkUsed, cookie, page>>

EndWork(w) ==
  /\ w \in Working
  /\ Answer(w, None, None)
  /\ UNCHANGED <<desktop, registry, journal, linkUsed, cookie, page, lost, mishaps>>

(* The server ends and a new one begins with a secret of its own: no       *)
(* cookie is valid until its startup link is used.  The desktop app ends   *)
(* with its windows; in a browser a request in flight fails.               *)
Restart ==
  /\ mishaps < MaxMishaps /\ mishaps' = mishaps + 1
  /\ cookie' = None /\ linkUsed' = FALSE /\ lost' = FALSE
  /\ call' = [w \in Windows |-> None]
  /\ page' = IF desktop THEN [w \in Windows |-> NoDocument]
             ELSE [w \in Windows |-> [page[w] EXCEPT !.switching = @ /\ call[w] = None]]
  /\ UNCHANGED <<desktop, registry, journal>>

AccessNext ==
  \/ Restart
  \/ \E w \in Windows :
       \/ OpenLink(w) \/ Reload(w) \/ Receive(w) \/ Gate(w) \/ Handle(w) \/ EndWork(w)
       \/ \E kind \in Kinds : Send(w, kind)

AccessSpec == AccessInit /\ [][AccessNext]_accessVars

-----------------------------------------------------------------------------
AccessTypeOK ==
  /\ registry \in [generation : 0..MaxGeneration, active : Profiles \cup {Legacy}]
  /\ registry.generation = 0 <=> registry.active = Legacy
  /\ journal \in 0..MaxGeneration \cup {None} /\ cookie \in Binding \cup {None}
  /\ page \in [Windows -> Documents] /\ call \in [Windows -> Calls \cup {None}]
  /\ {desktop, linkUsed, lost} \subseteq BOOLEAN /\ mishaps \in 0..MaxMishaps

(* An operation that runs is one of the active profile, and of the profile *)
(* its page shows: no change of profile happens beside it, a page that was *)
(* left behind by one is not admitted, and neither is a request that was   *)
(* admitted just before it (profile-request.ts, proxy.ts).                 *)
WorkIsOfShownProfile ==
  \A w \in Working :
    /\ call[w].header = Current
    /\ ~call[w].abandoned => page[w].shows = registry.active

(* The two recovery endpoints stay within reach: whatever was left behind, *)
(* its evidence fits the registry (profile-context.ts, before and          *)
(* committed), though the journal takes its generation from a request.     *)
RecoveryWithinReach == EvidenceFits

(* In the desktop app, where the startup link admits once, the cookie      *)
(* admits the window to the page until an answer is lost: the bindings     *)
(* that arrive never take it back (profile-session-response.ts).           *)
CookieAdmits ==
  \/ ~desktop \/ ~linkUsed \/ lost
  \/ cookie = Current
  \/ \E w \in Windows : call[w] # None /\ call[w].at = "answered" /\ call[w].binding = Current

AccessInv == AccessTypeOK /\ WorkIsOfShownProfile /\ RecoveryWithinReach /\ CookieAdmits

(* A window of the desktop app that is open while a Recovery pends can be  *)
(* brought to offer it: it does, or a reload of it is admitted             *)
(* (profile-context.ts, the comment on recoveryProfileSessionBindings).    *)
RecoveryIsOffered ==
  \A w \in Windows :
    (desktop /\ journal # None /\ page[w].open /\ call[w] = None) =>
      SeesRecovery(w) \/ GateOpens(cookie)

=============================================================================
