-------------------------------- MODULE Accounts --------------------------------
(***************************************************************************)
(* Logins: the OAuth flows of the launcher, the logins of the command line *)
(* and the refreshes of the providers.  All of them read, change and write *)
(* auth.json and config.json as a whole, one after the other, without a    *)
(* lock; a flow is looked up, worked on without the mutex, and settled.    *)
(***************************************************************************)
EXTENDS Naturals, FiniteSets

CONSTANTS
  OpenAI, Google, Flows, Workers,
  Browser,             \* the flows of the browser method, the others poll
  MaxIssued, MaxBegun  \* credentials made, requests begun (bounds of the runs)

VARIABLES
  auth,                \* auth.json: [n, how] of every provider
  method,              \* auth_method of every provider in config.json
  flow,                \* oauthFlows: status, and whether its time is over
  states,              \* flows in oauthState
  work, begun,         \* work[w]: a handler, a command or a call of a provider
  issued, usable,      \* credentials; those whose refresh token was not used up
  done, raced,         \* flows that saved all; flows two handlers worked on at once
  torn, overlapped     \* providers a failure left half done; two writers met on

acVars == <<auth, method, flow, states, work, begun, issued, usable, done, raced, torn, overlapped>>

Providers == {OpenAI, Google}
NoCred == [n |-> 0, how |-> ""]
Nobody == [p \in Providers |-> NoCred]
Idle == [at |-> "idle", f |-> 0, creds |-> {}, confs |-> {}, cred |-> NoCred, copy |-> Nobody]

Init ==
  /\ auth = Nobody /\ method = [p \in Providers |-> ""]
  /\ flow = [f \in Flows |-> [status |-> "none", due |-> FALSE, p |-> OpenAI]] /\ states = {}
  /\ work = [w \in Workers |-> Idle] /\ begun = 0
  /\ issued = 0 /\ usable = {}
  /\ done = {} /\ raced = {} /\ torn = {} /\ overlapped = {}

files == <<auth, method, issued, usable, torn, overlapped>>
-----------------------------------------------------------------------------
(* The map of flows, under its mutex. Whoever looks something up first lets *)
(* go what is over: pending flows expire, settled ones are forgotten.       *)
Settled(f, s) == [flow[f] EXCEPT !.status = s, !.due = FALSE]
Collected(f) ==
  IF ~flow[f].due THEN flow[f]
  ELSE IF flow[f].status = "pending" THEN Settled(f, "expired") ELSE Settled(f, "gone")
gcOAuthFlowsLocked ==
  /\ flow' = [f \in Flows |-> Collected(f)]
  /\ states' = states \ {f \in Flows : flow[f].due}

TimePasses(f) ==
  /\ flow[f].status \notin {"none", "gone"} /\ ~flow[f].due
  /\ flow' = [flow EXCEPT ![f].due = TRUE]
  /\ UNCHANGED <<files, states, work, begun, done, raced>>

storeOAuthFlow(f, p) ==
  /\ flow' = [g \in Flows |-> IF g = f THEN [status |-> "pending", due |-> FALSE, p |-> p] ELSE Collected(g)]
  /\ states' = (states \ {g \in Flows : flow[g].due}) \cup ({f} \cap Browser)
handleOAuthLogin(f) ==
  /\ flow[f].status = "none"
  /\ \E p \in (IF f \in Browser THEN Providers ELSE {OpenAI}) : storeOAuthFlow(f, p)
  /\ begun < MaxBegun /\ begun' = begun + 1
  /\ UNCHANGED <<files, work, done, raced>>

handleGetOAuthFlow ==
  /\ \E f \in Flows : flow[f].due
  /\ gcOAuthFlowsLocked /\ UNCHANGED <<files, work, begun, done, raced>>

Settle(f, s) ==
  IF flow[f].status = "gone" THEN UNCHANGED <<flow, states>>
  ELSE flow' = [flow EXCEPT ![f] = Settled(f, s)] /\ states' = states \ {f}

-----------------------------------------------------------------------------
(* A worker that has looked a pending flow up works on its copy.            *)
Becomes(w, x) ==
  /\ work' = [work EXCEPT ![w] = x]
  /\ IF work[w].at # "idle" THEN UNCHANGED begun ELSE begun < MaxBegun /\ begun' = begun + 1
Looks(w, f) ==
  /\ work[w].at = "idle" /\ gcOAuthFlowsLocked
  /\ IF flow'[f].status = "pending"
     THEN /\ Becomes(w, [Idle EXCEPT !.at = "remote", !.f = f, !.creds = {flow[f].p}, !.confs = {flow[f].p}])
          /\ raced' = IF \E v \in Workers : work[v].f = f THEN raced \cup {f} ELSE raced
     ELSE UNCHANGED <<work, begun, raced>>
  /\ UNCHANGED <<files, done>>
handlePollOAuthFlow(w, f) == f \notin Browser /\ flow[f].status # "none" /\ Looks(w, f)
handleOAuthCallback(w, f) == f \in states /\ Looks(w, f)

(* Two writers meet on what both of them change. *)
Touches(x) == IF x.at \in {"load", "save", "conf", "sync", "renew"} THEN x.creds \cup x.confs ELSE {}
Enters(w, x) ==
  /\ Becomes(w, x)
  /\ overlapped' = overlapped \cup (Touches(x) \cap UNION {Touches(work[v]) : v \in Workers \ {w}})

Fresh(how) == [n |-> issued + 1, how |-> how]
Issue == issued < MaxIssued /\ issued' = issued + 1 /\ usable' = usable \cup {issued + 1}

(* The provider answers: not yet, an error, or tokens for the code.         *)
ExchangeCodeForTokens(w) ==
  /\ work[w].at = "remote"
  /\ Issue /\ Enters(w, [work[w] EXCEPT !.at = "load", !.cred = Fresh("oauth")])
  /\ UNCHANGED <<auth, method, flow, states, done, raced, torn>>
pollDeviceCode(w) ==
  /\ work[w].at = "remote" /\ work[w].f \in Flows \ Browser /\ Becomes(w, Idle)
  /\ UNCHANGED <<files, flow, states, done, raced>>
RemoteFails(w) ==
  /\ work[w].at = "remote"
  /\ Becomes(w, IF work[w].f = 0 THEN Idle ELSE [work[w] EXCEPT !.at = "error"])
  /\ UNCHANGED <<files, flow, states, done, raced>>

(* picoclaw auth login. The browser's first callback decides, be it one     *)
(* with a wrong state; a device code is polled whatever the errors.         *)
Login(w, how, p) ==
  /\ work[w].at = "idle"
  /\ Becomes(w, [Idle EXCEPT !.at = how, !.creds = {p}, !.confs = {p}])
  /\ UNCHANGED <<files, flow, states, done, raced>>
authLoginOpenAI(w) == \E how \in {"browser", "device"} : Login(w, how, OpenAI)
authLoginGoogleAntigravity(w) == Login(w, "browser", Google)
LoginBrowser(w) ==
  /\ work[w].at = "browser"
  /\ Becomes(w, Idle) \/ Becomes(w, [work[w] EXCEPT !.at = "remote"])
  /\ UNCHANGED <<files, flow, states, done, raced>>
LoginDeviceCode(w) ==
  /\ work[w].at = "device"
  /\ \/ Issue /\ Enters(w, [work[w] EXCEPT !.at = "load", !.cred = Fresh("oauth")])
     \/ Becomes(w, Idle) /\ UNCHANGED <<issued, usable, overlapped>>
  /\ UNCHANGED <<auth, method, flow, states, done, raced, torn>>

(* A token that the user pastes, in the launcher or in the terminal. *)
authLoginPasteToken(w) ==
  /\ work[w].at = "idle"
  /\ Issue /\ Enters(w, [Idle EXCEPT !.at = "load", !.creds = {OpenAI}, !.confs = {OpenAI}, !.cred = Fresh("token")])
  /\ UNCHANGED <<auth, method, flow, states, done, raced, torn>>

(* Logout deletes the credential and clears the method; under its short     *)
(* name the command line deletes nothing.                                   *)
Logout(w, creds, p) ==
  /\ work[w].at = "idle"
  /\ Enters(w, [Idle EXCEPT !.at = "load", !.creds = creds, !.confs = {p}])
  /\ UNCHANGED <<auth, method, flow, states, issued, usable, done, raced>>
handleOAuthLogout(w, p) == Logout(w, {p}, p) /\ UNCHANGED torn
authLogoutAlias(w) == Logout(w, {}, Google) /\ torn' = torn \cup {Google}

DeleteAllCredentials(w) ==
  /\ work[w].at = "idle"
  /\ auth' = Nobody
  /\ Enters(w, [Idle EXCEPT !.at = "conf", !.creds = Providers, !.confs = Providers])
  /\ UNCHANGED <<method, flow, states, issued, usable, done, raced, torn>>

(* The token source of a provider: an expiring token is refreshed, with a   *)
(* new refresh token or the old one; a project id that Google's credential  *)
(* lacked is written back with it.                                          *)
TokenSource(w, p) ==
  /\ work[w].at = "idle" /\ auth[p].how = "oauth"
  /\ Enters(w, [Idle EXCEPT !.at = "renew", !.creds = {p}, !.cred = auth[p]])
  /\ UNCHANGED <<auth, method, flow, states, issued, usable, done, raced, torn>>
createCodexTokenSource(w) == TokenSource(w, OpenAI)
createAntigravityTokenSource(w) == TokenSource(w, Google)
RefreshAccessToken(w) ==
  /\ work[w].at = "renew"
  /\ \/ Becomes(w, Idle) /\ UNCHANGED <<issued, usable>>
     \/ Becomes(w, [work[w] EXCEPT !.at = "load"]) /\ UNCHANGED <<issued, usable>>
     \/ /\ work[w].cred.n \in usable /\ issued < MaxIssued
        /\ issued' = issued + 1 /\ usable' = (usable \ {work[w].cred.n}) \cup {issued + 1}
        /\ Becomes(w, [work[w] EXCEPT !.at = "load", !.cred = Fresh("oauth")])
  /\ UNCHANGED <<auth, method, flow, states, done, raced, torn, overlapped>>

-----------------------------------------------------------------------------
(* SetCredential and DeleteCredential: LoadStore, then SaveStore. *)
LoadStore(w) ==
  /\ work[w].at = "load"
  /\ Becomes(w, [work[w] EXCEPT !.at = "save", !.copy = auth])
  /\ UNCHANGED <<files, flow, states, done, raced>>
SaveStore(w) ==
  LET x == work[w] IN
  /\ x.at = "save"
  /\ auth' = [p \in Providers |-> IF p \in x.creds THEN x.cred ELSE x.copy[p]]
  /\ overlapped' = overlapped \cup {p \in Providers \ x.creds : auth'[p] # auth[p]}
  /\ Becomes(w, IF x.confs = {} THEN Idle ELSE [x EXCEPT !.at = "conf"])
  /\ UNCHANGED <<method, flow, states, issued, usable, done, raced, torn>>

(* syncProviderAuthMethod, and what the command line does in its place. *)
LoadConfig(w) ==
  /\ work[w].at = "conf"
  /\ Becomes(w, [work[w] EXCEPT !.at = "sync",
       !.copy = [p \in Providers |-> [NoCred EXCEPT !.how = method[p]]]])
  /\ UNCHANGED <<files, flow, states, done, raced>>
syncProviderAuthMethod(w) ==
  LET x == work[w] IN
  /\ x.at = "sync"
  /\ method' = [p \in Providers |-> IF p \in x.confs THEN x.cred.how ELSE x.copy[p].how]
  /\ overlapped' = overlapped \cup {p \in Providers \ x.confs : method'[p] # method[p]}
  /\ Becomes(w, IF x.f = 0 THEN Idle ELSE [x EXCEPT !.at = "success"])
  /\ done' = IF x.f = 0 THEN done ELSE done \cup {x.f}
  /\ UNCHANGED <<auth, flow, states, issued, usable, raced, torn>>

(* A file cannot be read or written. *)
IOFails(w) ==
  LET x == work[w] IN
  /\ x.at \in {"load", "save", "conf", "sync"}
  /\ torn' = IF x.at \in {"conf", "sync"} \/ x.confs = {} THEN torn \cup x.creds \cup x.confs ELSE torn
  /\ Becomes(w, IF x.f = 0 THEN Idle ELSE [x EXCEPT !.at = "error"])
  /\ UNCHANGED <<auth, method, flow, states, issued, usable, done, raced, overlapped>>

setOAuthFlowSuccess(w) ==
  /\ work[w].at = "success" /\ Becomes(w, Idle) /\ Settle(work[w].f, "success")
  /\ UNCHANGED <<files, done, raced>>
setOAuthFlowError(w) ==
  /\ work[w].at = "error" /\ Becomes(w, Idle) /\ Settle(work[w].f, "error")
  /\ UNCHANGED <<files, done, raced>>

Next ==
  \/ handleGetOAuthFlow
  \/ \E f \in Flows : TimePasses(f) \/ handleOAuthLogin(f)
  \/ \E w \in Workers :
       \/ \E f \in Flows : handlePollOAuthFlow(w, f) \/ handleOAuthCallback(w, f)
       \/ authLoginOpenAI(w) \/ authLoginGoogleAntigravity(w) \/ LoginBrowser(w) \/ LoginDeviceCode(w)
       \/ authLoginPasteToken(w) \/ (\E p \in Providers : handleOAuthLogout(w, p)) \/ authLogoutAlias(w)
       \/ createCodexTokenSource(w) \/ createAntigravityTokenSource(w)
       \/ ExchangeCodeForTokens(w) \/ pollDeviceCode(w) \/ RemoteFails(w)
       \/ DeleteAllCredentials(w) \/ RefreshAccessToken(w)
       \/ LoadStore(w) \/ SaveStore(w) \/ LoadConfig(w) \/ syncProviderAuthMethod(w) \/ IOFails(w)
       \/ setOAuthFlowSuccess(w) \/ setOAuthFlowError(w)

Spec == Init /\ [][Next]_acVars
-----------------------------------------------------------------------------
TypeOK ==
  /\ \A p \in Providers : auth[p].n \in 0..issued /\ method[p] \in {"", "oauth", "token"}
  /\ \A f \in Flows : flow[f].status \in {"none", "pending", "success", "error", "expired", "gone"}
  /\ usable \subseteq 1..issued

(* Just the pending browser flows can be called back: a state is consumed   *)
(* when its flow is settled, expires or is forgotten.                       *)
StatesArePending == states = {f \in Browser : flow[f].status = "pending"}

(* A flow that saved its credential ends as a success, unless a second      *)
(* handler worked on it at the same time; no flow is a success without.     *)
LoginToldRight ==
  \A f \in Flows :
    /\ flow[f].status = "success" => f \in done
    /\ f \in done /\ (\A w \in Workers : work[w].f # f) =>
         flow[f].status \in {"success", "gone"} \/ f \in raced

(* When nobody works on them, the two files agree on who is logged in and   *)
(* how, and a refresh token that was used up is not the one on file, unless *)
(* two writers met or one failed half way.                                  *)
FilesAgree ==
  (\A w \in Workers : work[w].at = "idle") =>
    \A p \in Providers \ (torn \cup overlapped) :
      auth[p].how = method[p] /\ (auth[p].how = "oauth" => auth[p].n \in usable)
=============================================================================
