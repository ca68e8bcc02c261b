---------------------------- MODULE CloudSession -----------------------------
(***************************************************************************)
(* The browser session through which uploader.py talks to Supernote Cloud: *)
(* the API call under a lock of all processes, the restart of a browser    *)
(* that is gone, the renewal of the CSRF token, and the login, as the      *)
(* download and the start of an upload use them.                           *)
(*                                                                         *)
(*   browser[s]  the browser of process s is open, or gone                 *)
(*   session[s]  what the cloud thinks of it: valid, stale (the token has  *)
(*               expired), or out (the login has)                          *)
(*   flock       who holds cloud-api.lock                                  *)
(*   recovery[s] who holds _recovery_lock                                  *)
(*   caller[c]   a coroutine: the call it wants to make, its step, the     *)
(*               step that it repeats after a restart, whether it has      *)
(*               restarted the browser for this step (and, in again, for   *)
(*               the probe), whether the token was renewed in this call,   *)
(*               and the attempts to start an upload                       *)
(*   faults      crashes of a browser, expired tokens and expired logins   *)
(*                                                                         *)
(* Abstractions: bodies and listings of calls; one listing finds an entry. *)
(***************************************************************************)
EXTENDS Naturals

CONSTANTS
  Callers,      \* coroutines
  HostOf,       \* the process of each
  Nobody,
  MaxFaults     \* bound: the faults of each kind

ASSUME NobodyIsNoCaller == Nobody \notin Callers

Hosts == {HostOf[c] : c \in Callers}

VARIABLES browser, session, flock, recovery, caller, faults

sessionVars == <<browser, session, flock, recovery, caller, faults>>

NoCall == [pc |-> "idle", wants |-> "nothing", back |-> "idle", retried |-> FALSE,
          again |-> FALSE, renewed |-> FALSE, attempts |-> 0]

Calling(op) == [NoCall EXCEPT !.pc = "lock", !.wants = op]

Becomes(c, record) == caller' = [caller EXCEPT ![c] = record]

LetGo(c) == flock' = IF flock = c THEN Nobody ELSE flock

Fails(c) == Becomes(c, [caller[c] EXCEPT !.pc = "failed"])

(***************************************************************************)
(* Faults.                                                                 *)
(***************************************************************************)

BrowserCrashes(s) ==
  /\ browser[s] = "open" /\ faults.crash < MaxFaults.crash
  /\ browser' = [browser EXCEPT ![s] = "gone"]
  /\ faults' = [faults EXCEPT !.crash = @ + 1]
  /\ UNCHANGED <<session, flock, recovery, caller>>

TokenExpires(s) ==
  /\ session[s] = "valid" /\ faults.token < MaxFaults.token
  /\ session' = [session EXCEPT ![s] = "stale"]
  /\ faults' = [faults EXCEPT !.token = @ + 1]
  /\ UNCHANGED <<browser, flock, recovery, caller>>

LoginExpires(s) ==
  /\ session[s] # "out" /\ faults.login < MaxFaults.login
  /\ session' = [session EXCEPT ![s] = "out"]
  /\ faults' = [faults EXCEPT !.login = @ + 1]
  /\ UNCHANGED <<browser, flock, recovery, caller>>

(***************************************************************************)
(* _api_call.                                                              *)
(***************************************************************************)

\* download_notebook starts with the probe of ensure_authenticated.
StartDownload(c) ==
  /\ caller[c].pc \in {"idle", "failed"}
  /\ Becomes(c, Calling("probe"))
  /\ UNCHANGED <<browser, session, flock, recovery, faults>>

StartUpload(c) ==
  /\ caller[c].pc \in {"idle", "failed"}
  /\ Becomes(c, [Calling("upload") EXCEPT !.attempts = 1])
  /\ UNCHANGED <<browser, session, flock, recovery, faults>>

TakeApiLock(c) ==
  /\ caller[c].pc = "lock" /\ flock = Nobody
  /\ flock' = c
  /\ Becomes(c, [caller[c] EXCEPT !.pc = "call"])
  /\ UNCHANGED <<browser, session, recovery, faults>>

\* The call is accepted.  An upload may have to wait for a sync.
Accepted(c) ==
  CASE caller[c].wants = "probe" -> Becomes(c, Calling("entry"))
    [] caller[c].wants = "upload" ->
         \/ Becomes(c, NoCall)
         \/ IF caller[c].attempts >= 6
              THEN Fails(c)
              ELSE Becomes(c, [Calling("upload") EXCEPT !.attempts = caller[c].attempts + 1])
    [] OTHER -> Becomes(c, NoCall)

\* 401 or 403: a login, or for a listing of a download a restart, or the end.
\* The second attempt of an upload is the last one that may be refused.
Unauthorized(c) ==
  CASE caller[c].wants = "probe" -> Becomes(c, [caller[c] EXCEPT !.pc = "login"])
    [] caller[c].wants = "entry" ->
         Becomes(c, [Calling("entry again") EXCEPT !.pc = "restart", !.back = "lock"])
    [] caller[c].wants = "upload" /\ caller[c].attempts = 1 ->
         Becomes(c, [caller[c] EXCEPT !.pc = "login"])
    [] OTHER -> Fails(c)

\* The page posts the request: 401 without a login, 403 with an old token,
\* which is renewed once in a call.
Evaluate(c) ==
  /\ caller[c].pc = "call" /\ browser[HostOf[c]] = "open"
  /\ IF session[HostOf[c]] = "stale" /\ ~caller[c].renewed
       THEN /\ Becomes(c, [caller[c] EXCEPT !.pc = "renew", !.retried = FALSE])
            /\ UNCHANGED flock
       ELSE /\ IF session[HostOf[c]] = "valid" THEN Accepted(c) ELSE Unauthorized(c)
            /\ flock' = Nobody
  /\ UNCHANGED <<browser, session, recovery, faults>>

\* Loading the page of the cloud brings a new token to a session logged in.
Reload(s) ==
  session' = [session EXCEPT ![s] = IF @ = "stale" THEN "valid" ELSE @]

RefreshCsrfToken(c) ==
  /\ caller[c].pc = "renew" /\ browser[HostOf[c]] = "open"
  /\ Reload(HostOf[c])
  /\ Becomes(c, [caller[c] EXCEPT !.pc = "call", !.retried = FALSE, !.renewed = TRUE])
  /\ UNCHANGED <<browser, flock, recovery, faults>>

(***************************************************************************)
(* _interactive_reauth, without the lock of the calls.                     *)
(***************************************************************************)

InteractiveReauth(c) ==
  /\ caller[c].pc = "login" /\ browser[HostOf[c]] = "open"
  /\ session' = [session EXCEPT ![HostOf[c]] = "valid"]
  /\ Becomes(c, IF caller[c].wants = "probe" THEN Calling("entry")
                ELSE [Calling("upload") EXCEPT !.attempts = caller[c].attempts + 1])
  /\ UNCHANGED <<browser, flock, recovery, faults>>

\* No credentials, nobody at the login page, or a changed form.
InteractiveReauthFails(c) ==
  /\ caller[c].pc = "login" /\ browser[HostOf[c]] = "open"
  /\ Fails(c)
  /\ UNCHANGED <<browser, session, flock, recovery, faults>>

\* A call on a page that another coroutine leads to the login is aborted; only
\* the probe takes that for a missing login.
CallAborted(c) ==
  /\ caller[c].pc = "call"
  /\ \E d \in Callers : HostOf[d] = HostOf[c] /\ caller[d].pc = "login"
  /\ IF caller[c].wants = "probe"
       THEN Becomes(c, [caller[c] EXCEPT !.pc = "login"])
       ELSE Fails(c)
  /\ LetGo(c)
  /\ UNCHANGED <<browser, session, recovery, faults>>

(***************************************************************************)
(* _retry_on_closed_target and _restart_browser_session.                   *)
(***************************************************************************)

\* Mutant: an operation is not repeated once the browser is back.
TargetClosedGivesUp(c) ==
  /\ caller[c].pc \in {"call", "renew"} /\ browser[HostOf[c]] = "gone"
  /\ Fails(c) /\ LetGo(c)
  /\ UNCHANGED <<browser, session, recovery, faults>>

\* Each step of a call restarts the browser at most once.  The error of the
\* second time ends the call, except that the probe then tries to log in.
TargetClosed(c) ==
  /\ caller[c].pc \in {"call", "renew"} /\ browser[HostOf[c]] = "gone"
  /\ IF ~caller[c].retried
       THEN /\ Becomes(c, [caller[c] EXCEPT !.back = caller[c].pc, !.pc = "restart"])
            /\ UNCHANGED flock
       ELSE /\ IF caller[c].wants = "probe"
                 THEN Becomes(c, [caller[c] EXCEPT !.pc = "login"])
                 ELSE Fails(c)
            /\ LetGo(c)
  /\ UNCHANGED <<browser, session, recovery, faults>>

\* The login of ensure_authenticated repeats the probe after a restart, once;
\* that of an upload is not repeated.
LoginClosed(c) ==
  /\ caller[c].pc = "login" /\ browser[HostOf[c]] = "gone"
  /\ IF caller[c].wants = "probe" /\ ~caller[c].again
       THEN Becomes(c, [Calling("probe") EXCEPT !.pc = "restart", !.back = "lock",
                                                !.again = TRUE])
       ELSE Fails(c)
  /\ UNCHANGED <<browser, session, flock, recovery, faults>>

StopBrowser(c) ==
  /\ caller[c].pc = "restart" /\ recovery[HostOf[c]] = Nobody
  /\ recovery' = [recovery EXCEPT ![HostOf[c]] = c]
  /\ browser' = [browser EXCEPT ![HostOf[c]] = "gone"]
  /\ Becomes(c, [caller[c] EXCEPT !.pc = "start"])
  /\ UNCHANGED <<session, flock, faults>>

StartBrowser(c) ==
  /\ caller[c].pc = "start"
  /\ browser' = [browser EXCEPT ![HostOf[c]] = "open"]
  /\ Becomes(c, [caller[c] EXCEPT !.pc = "reload"])
  /\ UNCHANGED <<session, flock, recovery, faults>>

\* start() ends with _refresh_csrf_token, and the interrupted step follows.
FinishRestart(c) ==
  /\ caller[c].pc = "reload" /\ browser[HostOf[c]] = "open"
  /\ Reload(HostOf[c])
  /\ recovery' = [recovery EXCEPT ![HostOf[c]] = Nobody]
  /\ Becomes(c, [caller[c] EXCEPT !.pc = caller[c].back, !.back = "idle",
                                  !.retried = caller[c].back # "lock"])
  /\ UNCHANGED <<browser, flock, faults>>

\* The new browser is gone too: _refresh_csrf_token restarts it, and waits for
\* the lock that this very coroutine holds.
WaitForOneself(c) ==
  /\ caller[c].pc = "reload" /\ browser[HostOf[c]] = "gone"
  /\ Becomes(c, [caller[c] EXCEPT !.pc = "restart"])
  /\ UNCHANGED <<browser, session, flock, recovery, faults>>

(***************************************************************************)
(* Specification.                                                          *)
(***************************************************************************)

SessionInit ==
  /\ browser = [s \in Hosts |-> "open"]
  /\ session = [s \in Hosts |-> "valid"]
  /\ flock = Nobody
  /\ recovery = [s \in Hosts |-> Nobody]
  /\ caller = [c \in Callers |-> NoCall]
  /\ faults = [crash |-> 0, token |-> 0, login |-> 0]

CallerSteps(c) ==
  \/ StartDownload(c) \/ StartUpload(c)
  \/ TakeApiLock(c) \/ Evaluate(c) \/ RefreshCsrfToken(c)
  \/ InteractiveReauth(c) \/ InteractiveReauthFails(c) \/ CallAborted(c)
  \/ TargetClosed(c) \/ LoginClosed(c)
  \/ StopBrowser(c) \/ StartBrowser(c) \/ FinishRestart(c) \/ WaitForOneself(c)

SessionNext ==
  \/ \E s \in Hosts : BrowserCrashes(s) \/ TokenExpires(s) \/ LoginExpires(s)
  \/ \E c \in Callers : CallerSteps(c)

SessionSpec == SessionInit /\ [][SessionNext]_sessionVars

(***************************************************************************)
(* Properties.                                                             *)
(***************************************************************************)

\* One crash of a browser and one expired token, in any order and at any step
\* of any coroutine, are absorbed: while every login holds, a call fails only
\* because the cloud kept answering that a sync is in progress, and no call
\* waits for a lock that it holds itself.
FaultsAreAbsorbed ==
  faults.login = 0 /\ faults.crash <= 1 /\ faults.token <= 1 =>
    \A c \in Callers :
      /\ caller[c].pc = "failed" => caller[c].attempts >= 6
      /\ caller[c].pc = "restart" => recovery[HostOf[c]] # c

=============================================================================
