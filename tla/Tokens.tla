-------------------------------- MODULE Tokens --------------------------------
(***************************************************************************)
(* How the device stays signed in: ServeApi of src/apis/serve.go, which    *)
(* holds an access and a refresh token, and ConfigFile of src/config.go,   *)
(* to which device.go has every change of them written, with the device's  *)
(* id, so that they outlive the process.                                   *)
(*                                                                         *)
(* Callers are goroutines that call the api, each at call[c].at. In this   *)
(* program there is one, wsStart on paho's router goroutine, and nobody    *)
(* signs in with a code: the tokens it starts with are in a config file    *)
(* written elsewhere. But the api is written for several callers (it       *)
(* locks, and exports PostOAuthTokenCode), and so is the module; a sign-in *)
(* also stands for a file that brings tokens. The server answers a refresh *)
(* token once, with new tokens. Its grants are numbered, and access token  *)
(* n and refresh token n are those of grant n; 0 is "". mu is tokenMu's    *)
(* write lock; its read lock is only held within a step. A torn file is    *)
(* one that WriteFile has truncated and not yet written.                   *)
(***************************************************************************)
EXTENDS Integers, FiniteSets

CONSTANTS Callers, Nil,
          Absent, Torn, \* what the config file may be instead of a config
          MaxGrants,  \* bound: how many grants the server makes
          Faults      \* what may go wrong

ASSUME GrantsAssumption == MaxGrants \in Nat
ASSUME TokenFaultAssumption ==
    Faults \subseteq {"crash",    \* the process dies anywhere
                      "http",     \* the request cannot be sent, or gets no answer
                      "body",     \* the answer's body cannot be read
                      "json",     \* it is not JSON
                      "data",     \* it is JSON without data
                      "omit",     \* the server sends no new refresh token
                      "save",     \* the file cannot be opened or written
                      "expire"}   \* a refresh token expires

Grants == 0 .. MaxGrants
Configs == [id : BOOLEAN, access : Grants, refresh : Grants]

ASSUME DistinctAssumption ==
    Nil \notin Callers /\ Absent # Torn /\ Absent \notin Configs /\ Torn \notin Configs

VARIABLES accessToken, refreshToken, mu,
          config,       \* d.cf.Config
          file,         \* the config file
          up,           \* the process runs, and Open has read the file
          call,         \* where each caller is, what it asked with and was told
          issued, good, \* the server: grants made, refresh tokens it still takes
          expiredAccess, expiredRefresh,
          excuse        \* history: why the device may have lost what it knew

memory == <<accessToken, refreshToken, mu, config>>
server == <<issued, good>>
clock == <<expiredAccess, expiredRefresh>>
vars == <<memory, file, up, call, server, clock, excuse>>

NoConfig == [id |-> FALSE, access |-> 0, refresh |-> 0]
NoAnswer == [access |-> 0, refresh |-> 0]
Idle == [at |-> "idle", with |-> 0, told |-> NoAnswer]

At(c, label) == call[c].at = label
To(c, label) == call' = [call EXCEPT ![c].at = label]
Return(c) == call' = [call EXCEPT ![c] = Idle]

(* A device somebody has given an id, or one that starts for the first time. *)
Init ==
    /\ accessToken = 0 /\ refreshToken = 0 /\ mu = Nil
    /\ config = NoConfig
    /\ \/ file = [id |-> TRUE, access |-> 0, refresh |-> 0] /\ excuse = {}
       \/ file = Absent /\ excuse = {"new"}
    /\ up = FALSE
    /\ call = [c \in Callers |-> Idle]
    /\ issued = 0 /\ good = {}
    /\ expiredAccess = {} /\ expiredRefresh = {}

-----------------------------------------------------------------------------
(* ConfigFile.Load: an error leaves the zero config. *)
Load == IF file \in {Absent, Torn} THEN NoConfig ELSE file

(* Device.Open: Load, and Save when there is no file; a file that cannot be *)
(* read is only logged.  Then SetOAuthToken, with nobody to tell yet.       *)
Open ==
    /\ ~ up
    /\ up' = TRUE
    /\ config' = Load
    /\ file' = IF file = Absent THEN config' ELSE file
    /\ accessToken' = config'.access
    /\ refreshToken' = config'.refresh
    /\ UNCHANGED <<mu, call, server, clock, excuse>>

(* GetAccessToken, under the read lock: what it found decides what it does  *)
(* when it has let go of it.                                                *)
GetAccessToken(c) ==
    /\ up /\ At(c, "idle") /\ mu = Nil
    /\ \/ /\ accessToken # 0 /\ accessToken \notin expiredAccess
          /\ To(c, "read")
       \/ /\ accessToken = 0 \/ accessToken \in expiredAccess
          /\ refreshToken # 0 /\ refreshToken \notin expiredRefresh
          /\ To(c, "refresh")
    /\ UNCHANGED <<memory, file, up, server, clock, excuse>>

(* The access token is read again, without the lock, and returned. *)
ReadAccess(c) ==
    /\ At(c, "read")
    /\ Return(c)
    /\ UNCHANGED <<memory, file, up, server, clock, excuse>>

(* The refresh token too: PostOAuthTokenRefreshToken(api.refreshToken). *)
PostOAuthTokenRefreshToken(c) ==
    /\ At(c, "refresh")
    /\ call' = [call EXCEPT ![c].at = "header", ![c].with = refreshToken]
    /\ UNCHANGED <<memory, file, up, server, clock, excuse>>

(* Signing in: there is a code (0) instead of a refresh token. *)
PostOAuthTokenCode(c) ==
    /\ up /\ At(c, "idle")
    /\ To(c, "header")
    /\ UNCHANGED <<memory, file, up, server, clock, excuse>>

(* buildHeader takes the read lock; then the request is sent. *)
BuildHeader(c) ==
    /\ At(c, "header") /\ mu = Nil
    /\ To(c, "sent")
    /\ UNCHANGED <<memory, file, up, server, clock, excuse>>

(* The server: a code is granted, a refresh token it still takes is used up. *)
Grant(c) ==
    /\ At(c, "sent") /\ call[c].with \in good \cup {0}
    /\ issued < MaxGrants
    /\ issued' = issued + 1
    /\ \/ /\ call' = [call EXCEPT ![c].at = "granted",
                                  ![c].told = [access |-> issued', refresh |-> issued']]
          /\ good' = (good \ {call[c].with}) \cup {issued'}
       \/ /\ "omit" \in Faults /\ call[c].with # 0
          /\ call' = [call EXCEPT ![c].at = "granted",
                                  ![c].told = [access |-> issued', refresh |-> 0]]
          /\ UNCHANGED good
    /\ UNCHANGED <<memory, file, up, clock, excuse>>

Refuse(c) ==
    /\ At(c, "sent") /\ call[c].with \notin good \cup {0}
    /\ To(c, "refused")
    /\ UNCHANGED <<memory, file, up, server, clock, excuse>>

(* Mutant of Status: the status is not looked at. *)
StatusAny(c) ==
    /\ At(c, "refused")
    /\ To(c, "set")
    /\ UNCHANGED <<memory, file, up, server, clock, excuse>>

Status(c) ==
    /\ At(c, "refused")
    /\ Return(c)
    /\ UNCHANGED <<memory, file, up, server, clock, excuse>>

Unmarshal(c) ==
    /\ At(c, "granted")
    /\ To(c, "set")
    /\ UNCHANGED <<memory, file, up, server, clock, excuse>>

(* The answer is lost on the way to SetOAuthToken.  A refresh that cannot    *)
(* read the body, be it a grant's or a refusal's, forgets the access token   *)
(* and returns the error; everything else returns the error only.            *)
AnswerLost(c) ==
    /\ \/ /\ "body" \in Faults /\ call[c].with # 0
          /\ At(c, "granted") \/ At(c, "refused")
          /\ call' = [call EXCEPT ![c].at = "set", ![c].told = NoAnswer]
       \/ /\ Faults \cap {"body", "json"} # {}
          /\ At(c, "granted")
          /\ Return(c)
    /\ excuse' = excuse \cup {"lost"}
    /\ UNCHANGED <<memory, file, up, server, clock>>

(* SetOAuthToken, up to the call of Save: a missing refresh token leaves the *)
(* old one in the api, and none in the config.                               *)
Assign(c, lock, refresh, old) ==
    /\ At(c, "set") /\ mu = Nil
    /\ mu' = lock
    /\ accessToken' = call[c].told.access
    /\ refreshToken' = refresh
    /\ config' = [old EXCEPT !.access = call[c].told.access, !.refresh = call[c].told.refresh]
    /\ To(c, "save")
    /\ UNCHANGED <<file, up, server, clock, excuse>>

Kept(c) == IF call[c].told.refresh # 0 THEN call[c].told.refresh ELSE refreshToken

(* Mutants of SetOAuthToken: a missing refresh token replaces the old one;   *)
(* the lock is not kept while the file is saved; the config is a new one.    *)
SetForgets(c) == Assign(c, c, call[c].told.refresh, config)
SetUnlocked(c) == Assign(c, Nil, Kept(c), config)
SetNewConfig(c) == Assign(c, c, Kept(c), NoConfig)

SetOAuthToken(c) == Assign(c, c, Kept(c), config)

(* Save: WriteFile truncates the file, then writes it; an error is logged.   *)
Truncate(c) ==
    /\ At(c, "save")
    /\ file' = Torn
    /\ To(c, "write")
    /\ UNCHANGED <<memory, up, server, clock, excuse>>

Write(c) ==
    /\ At(c, "write")
    /\ file' = config
    /\ To(c, "unlock")
    /\ UNCHANGED <<memory, up, server, clock, excuse>>

SaveFails(c) ==
    /\ At(c, "save") \/ At(c, "write")
    /\ "save" \in Faults
    /\ To(c, "unlock")
    /\ excuse' = excuse \cup {IF file = Torn THEN "torn" ELSE "unsaved"}
    /\ UNCHANGED <<memory, file, up, server, clock>>

(* SetOAuthToken returns; after a refresh the new access token is read,      *)
(* without the lock.  Signing in, and a refresh with an error, return.       *)
Unlock(c) ==
    /\ At(c, "unlock")
    /\ mu' = Nil
    /\ IF call[c].with # 0 /\ call[c].told # NoAnswer THEN To(c, "read") ELSE Return(c)
    /\ UNCHANGED <<accessToken, refreshToken, config, file, up, server, clock, excuse>>

-----------------------------------------------------------------------------
(* The process dies, and what it knew is gone.  A grant on its way, a file   *)
(* half written and a refresh token that was not saved are lost with it.     *)
Die ==
    /\ up' = FALSE
    /\ call' = [c \in Callers |-> Idle]
    /\ mu' = Nil /\ accessToken' = 0 /\ refreshToken' = 0 /\ config' = NoConfig
    /\ excuse' = excuse
          \cup (IF file = Torn THEN {"torn"} ELSE {})
          \cup (IF \E c \in Callers : call[c].at \in {"granted", "set", "save"} THEN {"lost"} ELSE {})
          \cup (IF config.refresh # refreshToken THEN {"omitted"} ELSE {})
    /\ UNCHANGED <<file, server, clock>>

Crash == up /\ "crash" \in Faults /\ Die

(* doRequest uses the nil response of a request that failed; an answer       *)
(* without data is used all the same.                                        *)
Panic(c) ==
    /\ \/ call[c].at \in {"sent", "refused", "granted"} /\ "http" \in Faults
       \/ At(c, "granted") /\ "data" \in Faults
    /\ Die

Expire ==
    /\ \/ /\ \E n \in (1 .. issued) \ expiredAccess : expiredAccess' = expiredAccess \cup {n}
          /\ UNCHANGED expiredRefresh
       \/ /\ "expire" \in Faults
          /\ \E n \in (1 .. issued) \ expiredRefresh : expiredRefresh' = expiredRefresh \cup {n}
          /\ UNCHANGED expiredAccess
    /\ UNCHANGED <<memory, file, up, call, server, excuse>>

Next ==
    \/ Open \/ Crash \/ Expire
    \/ \E c \in Callers :
          \/ GetAccessToken(c) \/ ReadAccess(c)
          \/ PostOAuthTokenRefreshToken(c) \/ PostOAuthTokenCode(c) \/ BuildHeader(c)
          \/ Grant(c) \/ Refuse(c) \/ Status(c) \/ Unmarshal(c) \/ AnswerLost(c)
          \/ SetOAuthToken(c) \/ Truncate(c) \/ Write(c) \/ SaveFails(c) \/ Unlock(c)
          \/ Panic(c)

Spec == Init /\ [][Next]_vars

-----------------------------------------------------------------------------
Labels == {"idle", "read", "refresh", "header", "sent", "refused", "granted",
           "set", "save", "write", "unlock"}

(* Types, and who holds the lock: the caller that is inside SetOAuthToken.   *)
TypeOK ==
    /\ accessToken \in Grants /\ refreshToken \in Grants
    /\ mu \in Callers \cup {Nil}
    /\ config \in Configs
    /\ file \in Configs \cup {Absent, Torn}
    /\ up \in BOOLEAN
    /\ call \in [Callers -> [at : Labels, with : Grants,
                             told : [access : Grants, refresh : Grants]]]
    /\ issued \in Grants /\ good \subseteq Grants
    /\ expiredAccess \subseteq Grants /\ expiredRefresh \subseteq Grants
    /\ excuse \subseteq {"new", "torn", "unsaved", "lost", "omitted"}
    /\ \A c \in Callers : mu = c <=> call[c].at \in {"save", "write", "unlock"}

(* Whatever the callers do at once, and however often the process dies and   *)
(* starts again: the refresh token of a device that is at rest is one that   *)
(* the server takes, unless one of five things has happened to it (an answer *)
(* lost, a save torn or failed, a restart without a saved token).            *)
StaysSignedIn ==
    up /\ excuse \subseteq {"new"} /\ (\A c \in Callers : At(c, "idle"))
        => refreshToken \in good \cup {0} /\ (good # {} => refreshToken # 0)

(* The device that was given an id knows it, unless a save was torn.         *)
KeepsIdentity == up /\ excuse \cap {"new", "torn"} = {} => config.id

(* When nobody saves, the file says what the api holds: the access token,    *)
(* and the refresh token or, when the server sent none, nothing.             *)
FileFollows ==
    up /\ mu = Nil /\ excuse \cap {"torn", "unsaved"} = {} =>
        /\ file = config
        /\ config.access = accessToken
        /\ config.refresh \in {refreshToken, 0}

(* GetAccessToken returns a token or an error, never an empty token: when it *)
(* reads the token again, there still is one, unless an answer was lost and  *)
(* another caller has forgotten the token for it.                            *)
NeverEmpty == "lost" \notin excuse => \A c \in Callers : At(c, "read") => accessToken # 0
=============================================================================
