------------------------------- MODULE Console -------------------------------
(***************************************************************************)
(* The console's requests that share the second factor's settings, the     *)
(* sessions and the throttle: handleLogin and handleLogout of admin.go,    *)
(* handle2FABegin, handle2FAEnable, handle2FADisable and the session       *)
(* handlers of security.go.  Every statement on the store is a step: the   *)
(* requests run at once and the process may stop between any two.          *)
(*                                                                         *)
(* A secret is named by a number, 0 being none.  A TOTP code is <<0, step>>, *)
(* a recovery code <<secret, k>>, k \in 1..2.                              *)
(***************************************************************************)
EXTENDS Integers, Sequences, FiniteSets, LoginWindow

CONSTANTS
  Req,        \* requests; each is served once
  AddressOf,  \* Req -> the address it comes from
  First,      \* the session of an earlier login, which the model does not follow
  None,
  MaxStep,    \* bound of the model on the clock, in TOTP periods
  MaxSecret,  \* bound of the model on secrets
  MaxFaults   \* bound of the model on faults: restarts, failures of the store

ASSUME ConsoleAssumption ==
  /\ None \notin Req \cup {First}
  /\ MaxStep \in Nat \ {0} /\ MaxSecret \in Nat \ {0} /\ MaxFaults \in Nat

VARIABLES
  step,      \* time, in periods
  set,       \* the settings: secret, last, enabled, pending, recovery
  sessions,  \* the sessions, named by the request that made them
  hits,      \* loginWindow
  mu,        \* who holds totpMu
  pc, kind, cur,  \* the requests: where, what, by which session
  code, got,      \* the code a request carries, the value it has read
  todo,           \* the settings it still has to write
  fresh, faults,  \* secrets drawn, faults so far
  \* History of the model:
  accepted,  \* codes accepted since totp_last_step was last set otherwise
  proved,    \* sessions whose login passed a second factor
  strad,     \* logins that had asked for no factor when others were deleted
  misled,    \* requests that a failed read of the settings let on
  whole,     \* no change of the second factor was interrupted or lost a write, and none
             \* overlapped another change or the spending of a code
  swept      \* the change that turned two-factor on has deleted the others

reqVars == <<pc, kind, cur, code, got, todo>>
history == <<accepted, proved, strad, misled, whole, swept>>
vars == <<step, set, sessions, hits, mu, reqVars, fresh, faults, history>>

On(s) == s.enabled = 1 /\ s.secret # 0     \* twoFactorEnabled
Recovery(s) == {<<s, 1>>, <<s, 2>>}
Around(n) == {<<0, k>> : k \in {m \in (n - 1)..(n + 1) : m > 0}}  \* verifyTOTPStep's window
NoCode == <<0, 0>>
Changing == {r \in Req : pc[r] \in {"write", "others"}}

\* currentSession: a cookie is good as long as the store has its session.
SignedIn(s) == s \in sessions

Goto(r, l) == pc' = [pc EXCEPT ![r] = l]
Leave(r)   == Goto(r, "done")

----------------------------------------------------------------------------
(* A request comes in.                                                     *)

Kinds == {"login", "logout", "begin", "enable", "disable", "revoke", "revokeOthers"}

\* The throttle, for the requests that carry the password.
Arrive(r, k) ==
  /\ pc[r] = "new"
  /\ kind' = [kind EXCEPT ![r] = k]
  /\ \E s \in sessions \cup {None} :
       /\ k = "login" \/ SignedIn(s)
       /\ k = "login" => s = None
       /\ cur' = [cur EXCEPT ![r] = s]
  /\ IF k \in {"logout", "revoke", "revokeOthers"}
     THEN Goto(r, k) /\ UNCHANGED hits
     ELSE /\ hits' = Pruned(hits, AddressOf[r], step)
          /\ Goto(r, IF Blocked(hits, AddressOf[r], step) THEN "done" ELSE "password")
  /\ UNCHANGED <<step, set, sessions, mu, code, got, todo, fresh, faults, history>>

WrongPassword(r) ==
  /\ pc[r] = "password"
  /\ hits' = Failed(hits, AddressOf[r], step)
  /\ Leave(r)
  /\ UNCHANGED <<step, set, sessions, mu, kind, cur, code, got, todo, fresh, faults, history>>

\* Mutant of LoginPassword: the right password clears the address.
LoginPasswordResets(r) ==
  /\ pc[r] = "password" /\ kind[r] = "login"
  /\ IF On(set) THEN pc' \in {[pc EXCEPT ![r] = l] : l \in {"lock", "done"}}
                ELSE Goto(r, "create")
  /\ hits' = Reset(hits, AddressOf[r])
  /\ UNCHANGED <<step, set, sessions, mu, kind, cur, code, got, todo, fresh, faults, history>>

\* handleLogin asks for the second factor if it is on; an empty code is no failure.
LoginPassword(r) ==
  /\ pc[r] = "password" /\ kind[r] = "login"
  /\ IF On(set) THEN pc' \in {[pc EXCEPT ![r] = l] : l \in {"lock", "done"}}
                ELSE Goto(r, "create")
  /\ UNCHANGED <<step, set, sessions, hits, mu, kind, cur, code, got, todo, fresh, faults, history>>

DisablePassword(r) ==
  /\ pc[r] = "password" /\ kind[r] = "disable"
  /\ Goto(r, "lock")
  /\ UNCHANGED <<step, set, sessions, hits, mu, kind, cur, code, got, todo, fresh, faults, history>>

----------------------------------------------------------------------------
(* checkSecondFactor, between Lock and Unlock of totpMu.                   *)

\* Mutant of Lock: the mutex is not taken.
LockNothing(r) ==
  /\ pc[r] = "lock"
  /\ \E c \in (IF set.secret # 0 THEN Around(step) ELSE {}) :
       code' = [code EXCEPT ![r] = c] /\ Goto(r, "last")
  /\ UNCHANGED <<step, set, sessions, hits, mu, kind, cur, got, todo, fresh, faults, history>>

\* The secret is read and the code is judged by it: a step in the window, or a
\* recovery code, or neither.
Lock(r) ==
  /\ pc[r] = "lock" /\ mu = None
  /\ mu' = r
  /\ \/ \E c \in (IF set.secret # 0 THEN Around(step) ELSE {}) :
          code' = [code EXCEPT ![r] = c] /\ Goto(r, "last")
     \/ \E c \in UNION {Recovery(s) : s \in 1..fresh} :
          code' = [code EXCEPT ![r] = c] /\ Goto(r, "recovery")
     \/ Goto(r, "refuse") /\ UNCHANGED code
  /\ UNCHANGED <<step, set, sessions, hits, kind, cur, got, todo, fresh, faults, history>>

ReadLast(r) ==
  /\ pc[r] = "last"
  /\ Goto(r, IF code[r][2] <= set.last THEN "refuse" ELSE "spend")
  /\ UNCHANGED <<step, set, sessions, hits, mu, kind, cur, code, got, todo, fresh, faults, history>>

ReadRecovery(r) ==
  /\ pc[r] = "recovery"
  /\ got' = [got EXCEPT ![r] = set.recovery]
  /\ Goto(r, IF code[r] \in set.recovery THEN "spend" ELSE "refuse")
  /\ UNCHANGED <<step, set, sessions, hits, mu, kind, cur, code, todo, fresh, faults, history>>

\* What handle2FADisable writes once the code is spent.
DisableWrites ==
  <<[k |-> "secret", v |-> 0], [k |-> "enabled", v |-> 0], [k |-> "pending", v |-> 0],
    [k |-> "recovery", v |-> {}], [k |-> "last", v |-> 0]>>

\* A misled request may move totp_last_step back, before codes accepted earlier.
StillSpent(r) ==
  IF r \in misled THEN {c \in accepted : c[1] = 0 => c[2] <= code[r][2]} ELSE accepted

\* The code is spent before it counts.
Spend(r) ==
  /\ pc[r] = "spend"
  /\ set' = IF code[r][1] = 0 THEN [set EXCEPT !.last = code[r][2]]
                              ELSE [set EXCEPT !.recovery = got[r] \ {code[r]}]
  /\ accepted' = StillSpent(r) \cup {code[r]}
  /\ mu' = None
  /\ IF kind[r] = "login"
     THEN Goto(r, "create") /\ UNCHANGED <<hits, todo>>
     ELSE /\ Goto(r, "write")
          /\ hits' = Reset(hits, AddressOf[r])
          /\ todo' = [todo EXCEPT ![r] = DisableWrites]
  /\ proved' = IF kind[r] = "login" THEN proved \cup {r} ELSE proved
  /\ whole' = (whole /\ Changing = {})
  /\ got' = [got EXCEPT ![r] = {}] /\ code' = [code EXCEPT ![r] = NoCode]
  /\ UNCHANGED <<step, sessions, kind, cur, fresh, faults, strad, misled, swept>>

\* Mutant of Refuse: the mutex stays locked.
RefuseLocked(r) ==
  /\ pc[r] \in {"refuse", "spend"}
  /\ hits' = Failed(hits, AddressOf[r], step)
  /\ got' = [got EXCEPT ![r] = {}] /\ code' = [code EXCEPT ![r] = NoCode]
  /\ Leave(r)
  /\ UNCHANGED <<step, set, sessions, mu, kind, cur, todo, fresh, faults, history>>

\* The store would not take it, or the code is wrong.
Refuse(r) ==
  /\ pc[r] \in {"refuse", "spend"}
  /\ mu' = None
  /\ hits' = Failed(hits, AddressOf[r], step)
  /\ got' = [got EXCEPT ![r] = {}] /\ code' = [code EXCEPT ![r] = NoCode]
  /\ Leave(r)
  /\ UNCHANGED <<step, set, sessions, kind, cur, todo, fresh, faults, history>>

----------------------------------------------------------------------------
(* What the requests then do.                                              *)

CreateSession(r) ==
  /\ pc[r] = "create"
  /\ hits' = Reset(hits, AddressOf[r])
  /\ sessions' = sessions \cup {r}
  /\ Leave(r)
  /\ UNCHANGED <<step, set, mu, kind, cur, code, got, todo, fresh, faults, history>>

\* handle2FABegin looks whether two-factor is on, then leaves a pending secret.
BeginAsk(r) ==
  /\ pc[r] = "password" /\ kind[r] = "begin"
  /\ hits' = Reset(hits, AddressOf[r])
  /\ Goto(r, IF On(set) THEN "done" ELSE "begin")
  /\ UNCHANGED <<step, set, sessions, mu, kind, cur, code, got, todo, fresh, faults, history>>

Begin(r) ==
  /\ pc[r] = "begin" /\ fresh < MaxSecret
  /\ fresh' = fresh + 1
  /\ set' = [set EXCEPT !.pending = fresh + 1]
  /\ Leave(r)
  /\ UNCHANGED <<step, sessions, hits, mu, kind, cur, code, got, todo, faults, history>>

\* Mutant of EnableWrites: the flag before the step.
EnableWritesFlagFirst(s, c) ==
  <<[k |-> "secret", v |-> s], [k |-> "enabled", v |-> 1], [k |-> "last", v |-> c[2]],
    [k |-> "pending", v |-> 0], [k |-> "recovery", v |-> Recovery(s)]>>

EnableWrites(s, c) ==
  <<[k |-> "secret", v |-> s], [k |-> "last", v |-> c[2]], [k |-> "enabled", v |-> 1],
    [k |-> "pending", v |-> 0], [k |-> "recovery", v |-> Recovery(s)]>>

\* handle2FAEnable: the pending secret and a code of it; whether two-factor is
\* on already is not asked.
Enable(r) ==
  /\ pc[r] = "password" /\ kind[r] = "enable"
  /\ hits' = Reset(hits, AddressOf[r])
  /\ \/ Leave(r) /\ UNCHANGED <<code, todo, whole>>
     \/ /\ set.pending # 0
        /\ \E c \in Around(step) :
             /\ todo' = [todo EXCEPT ![r] = EnableWrites(set.pending, c)]
             /\ code' = [code EXCEPT ![r] = c]
        /\ Goto(r, "write")
        /\ whole' = (whole /\ Changing = {})
  /\ UNCHANGED <<step, set, sessions, mu, kind, cur, got, fresh, faults, accepted,
                 proved, strad, misled, swept>>

WriteSetting(r) ==
  /\ pc[r] = "write" /\ todo[r] # <<>>
  /\ set' = [set EXCEPT ![Head(todo[r]).k] = Head(todo[r]).v]
  /\ todo' = [todo EXCEPT ![r] = Tail(@)]
  /\ accepted' = CASE Head(todo[r]).k \in {"last", "secret"} -> {c \in accepted : c[1] # 0}
                   [] Head(todo[r]).k = "recovery" -> {c \in accepted : c[1] = 0}
                   [] OTHER -> accepted
  /\ swept' = (swept /\ On(set'))
  /\ Goto(r, IF Len(todo[r]) = 1 THEN "others" ELSE "write")
  /\ UNCHANGED <<step, sessions, hits, mu, kind, cur, code, got, fresh, faults,
                 proved, strad, misled, whole>>

\* Mutant of KeepOnly: the others stay signed in.
KeepOnlyAll(r) == sessions

\* DeleteOtherSessions, if the request's own session still lives.
KeepOnly(r) == IF SignedIn(cur[r]) THEN {cur[r]} ELSE sessions

EndOthers(r) ==
  /\ pc[r] = "others" \/ pc[r] = "revokeOthers"
  /\ sessions' = KeepOnly(r)
  /\ strad' = strad \cup {q \in Req : pc[q] = "create" /\ q \notin proved}
  /\ swept' = IF kind[r] = "enable" /\ SignedIn(cur[r]) THEN On(set) ELSE swept
  /\ proved' = IF kind[r] = "enable" THEN proved \cup {cur[r]} ELSE proved
  /\ code' = [code EXCEPT ![r] = NoCode]
  /\ Leave(r)
  /\ UNCHANGED <<step, set, hits, mu, kind, cur, got, todo, fresh, faults, accepted, misled,
                 whole>>

\* Signing out ends one's own session, revoking any.
EndSession(r) ==
  /\ pc[r] \in {"logout", "revoke"}
  /\ \E s \in sessions \cup {None} :
       /\ kind[r] = "logout" => s = cur[r]
       /\ sessions' = sessions \ {s}
  /\ Leave(r)
  /\ UNCHANGED <<step, set, hits, mu, kind, cur, code, got, todo, fresh, faults, history>>

\* A write fails, which only CreateSession's caller looks at: a setting is not
\* written, a login gets no session, sessions stay, nothing is pending.
StoreFails(r) ==
  /\ faults < MaxFaults
  /\ faults' = faults + 1
  /\ \/ /\ pc[r] = "write"
        /\ todo' = [todo EXCEPT ![r] = Tail(@)]
        /\ whole' = FALSE
        /\ Goto(r, IF Len(todo[r]) = 1 THEN "others" ELSE "write")
        /\ UNCHANGED <<hits, code>>
     \/ /\ pc[r] = "create"
        /\ hits' = Reset(hits, AddressOf[r])
        /\ Leave(r)
        /\ UNCHANGED <<todo, whole, code>>
     \/ /\ pc[r] \in {"begin", "others", "revokeOthers", "logout", "revoke"}
        /\ code' = [code EXCEPT ![r] = NoCode]
        /\ Leave(r)
        /\ UNCHANGED <<hits, todo, whole>>
  /\ UNCHANGED <<step, set, sessions, mu, kind, cur, got, fresh, accepted, proved, strad,
                 misled, swept>>

\* GetSetting answers a query that fails with the default: two-factor is off, no
\* step and no recovery code is known.  (A secret or a pending secret that cannot
\* be read is among the outcomes of Lock and Enable.)
ReadFails(r) ==
  /\ faults < MaxFaults
  /\ faults' = faults + 1
  /\ \/ /\ pc[r] = "password" /\ kind[r] = "login"
        /\ Goto(r, "create")
        /\ misled' = IF On(set) THEN misled \cup {r} ELSE misled
        /\ UNCHANGED hits
     \/ /\ pc[r] = "password" /\ kind[r] = "begin"
        /\ hits' = Reset(hits, AddressOf[r])
        /\ Goto(r, "begin")
        /\ UNCHANGED misled
     \/ /\ pc[r] = "last"
        /\ Goto(r, "spend")
        /\ misled' = IF code[r][2] <= set.last THEN misled \cup {r} ELSE misled
        /\ UNCHANGED hits
     \/ /\ pc[r] = "recovery"
        /\ Goto(r, "refuse")
        /\ UNCHANGED <<hits, misled>>
  /\ UNCHANGED <<step, set, sessions, mu, kind, cur, code, got, todo, fresh, accepted, proved,
                 strad, whole, swept>>

----------------------------------------------------------------------------
Tick ==
  /\ step < MaxStep
  /\ step' = step + 1
  /\ UNCHANGED <<set, sessions, hits, mu, reqVars, fresh, faults, history>>

\* The process stops and starts: what the store holds stays, nothing else does.
Restart ==
  /\ faults < MaxFaults
  /\ faults' = faults + 1
  /\ pc' = [r \in Req |-> IF pc[r] = "new" THEN "new" ELSE "done"]
  /\ code' = [r \in Req |-> NoCode] /\ got' = [r \in Req |-> {}] /\ todo' = [r \in Req |-> <<>>]
  /\ mu' = None
  /\ hits' = [a \in {} |-> <<>>]
  /\ whole' = (whole /\ Changing = {})
  /\ UNCHANGED <<step, set, sessions, kind, cur, fresh, accepted, proved, strad, misled, swept>>

\* Two-factor off, or on since before, by the session the console is open in.
Init ==
  /\ step = 1
  /\ \E on \in {0, 1} :
       /\ set = [secret |-> on, last |-> 0, enabled |-> on, pending |-> 0,
                 recovery |-> IF on = 1 THEN Recovery(1) ELSE {}]
       /\ fresh = on
       /\ swept = (on = 1)
  /\ sessions = {First} /\ proved = {First}
  /\ hits = [a \in {} |-> <<>>] /\ mu = None
  /\ pc = [r \in Req |-> "new"] /\ kind = [r \in Req |-> "login"]
  /\ cur = [r \in Req |-> None]
  /\ code = [r \in Req |-> NoCode] /\ got = [r \in Req |-> {}] /\ todo = [r \in Req |-> <<>>]
  /\ faults = 0 /\ accepted = {} /\ strad = {} /\ misled = {} /\ whole = TRUE

Check(r) == Lock(r) \/ ReadLast(r) \/ ReadRecovery(r) \/ Spend(r) \/ Refuse(r)

Serve(r) ==
  \/ \E k \in Kinds : Arrive(r, k)
  \/ WrongPassword(r) \/ LoginPassword(r) \/ DisablePassword(r)
  \/ Check(r) \/ CreateSession(r) \/ BeginAsk(r) \/ Begin(r) \/ Enable(r)
  \/ WriteSetting(r) \/ EndOthers(r) \/ EndSession(r) \/ StoreFails(r) \/ ReadFails(r)

Next == Tick \/ Restart \/ \E r \in Req : Serve(r)

Spec == Init /\ [][Next]_vars

----------------------------------------------------------------------------
(* Properties.                                                             *)

Stages == {"new", "password", "lock", "last", "recovery", "spend", "refuse", "create", "begin",
           "write", "others", "logout", "revoke", "revokeOthers", "done"}
Checking == {"last", "recovery", "spend", "refuse"}   \* between Lock and Unlock

TOTPCodes == {0} \X (0..(MaxStep + 1))
RecoveryCodes == UNION {Recovery(s) : s \in 1..MaxSecret}

Settings ==
  [secret : 0..MaxSecret, last : 0..(MaxStep + 1), enabled : {0, 1}, pending : 0..MaxSecret,
   recovery : SUBSET RecoveryCodes]

\* Every variable stays in its set, and the one who holds totpMu is checking a code.
TypeOK ==
  /\ step \in 1..MaxStep /\ fresh \in 0..MaxSecret /\ faults \in 0..MaxFaults
  /\ set \in Settings
  /\ sessions \subseteq Req \cup {First} /\ mu \in Req \cup {None}
  /\ pc \in [Req -> Stages] /\ kind \in [Req -> Kinds]
  /\ cur \in [Req -> Req \cup {First, None}]
  /\ code \in [Req -> TOTPCodes \cup RecoveryCodes] /\ got \in [Req -> SUBSET RecoveryCodes]
  /\ accepted \subseteq TOTPCodes \cup RecoveryCodes
  /\ \A r \in Req : mu = r <=> pc[r] \in Checking

\* checkSecondFactor accepts no code twice, TOTP or recovery, whatever runs at
\* once, whichever write fails and wherever the process stops, unless the last
\* step could not be read, or what it compares with has been rewritten in between:
\* by enable, by disable, or by an older code that such a failed read let through.
OneUse == [][\A r \in Req : pc[r] = "spend" /\ pc'[r] \in {"create", "write"}
               => r \in misled \/ code[r] \notin accepted]_vars

\* Unless a change was interrupted, lost a write, or overlapped another change or
\* the spending of a code, two-factor turns on with the code that turned it on
\* already spent.
TurnsOnSpent ==
  [][whole /\ ~On(set) /\ On(set') =>
       \A r \in Req : pc[r] = "write" => set'.last >= code[r][2]]_vars

\* Once an enable has run to its end, every session passed a second factor or is
\* the one that enabled it, but for logins that had already been let through
\* without when the others were signed out, and for those a failed read let on.
SessionsMeetFactor ==
  swept /\ On(set) => sessions \subseteq proved \cup strad \cup misled

\* A blocked address stays blocked until its failures are old, unless one of its
\* own requests succeeds, the process stops or the map of addresses overflows: a
\* right password alone, of a login or a disable, does not clear it.
BlockedStays ==
  [][\A a \in DOMAIN hits :
       Blocked(hits, a, step) /\ ~Blocked(hits', a, step) =>
         \/ faults' # faults \/ Cardinality(DOMAIN hits) > MapCap
         \/ \E r \in Req : /\ AddressOf[r] = a /\ pc'[r] # pc[r]
                          /\ \/ pc[r] \in {"create", "spend"}
                             \/ pc[r] = "password" /\ kind[r] \in {"begin", "enable"}]_vars
=============================================================================
