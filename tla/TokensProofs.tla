----------------------------- MODULE TokensProofs -----------------------------
(***************************************************************************)
(* What Tokens.tla keeps for any number of callers and of grants, proved   *)
(* from an inductive invariant: the types and the lock (TypeOK), what the  *)
(* config and the file hold (FileInv, IdInv), the access tokens of calls   *)
(* that succeed (AccessInv), and where every refresh token that the server *)
(* still takes is (IssuedInv, FreshInv, ChainInv).                         *)
(***************************************************************************)
EXTENDS Tokens, TLAPS

(* The config has what the api has, but for a refresh token it was not sent. *)
(* The file is the config, except while it is saved; a torn one is being     *)
(* saved or has been noticed.  A process that is down has no calls.          *)
FileInv ==
    /\ up => config.access = accessToken /\ config.refresh \in {refreshToken, 0}
    /\ up /\ excuse \cap {"torn", "unsaved"} = {} =>
          file = config \/ \E c \in Callers : call[c].at \in {"save", "write"}
    /\ file = Torn => "torn" \in excuse \/ \E c \in Callers : call[c].at = "write"
    /\ \A c \in Callers : call[c].at = "write" => file = Torn
    /\ up => file # Absent
    /\ file = Absent => "new" \in excuse
    /\ ~ up => \A c \in Callers : call[c].at = "idle"

(* The id is in the config and in the file.                                  *)
IdInv ==
    excuse \cap {"new", "torn"} = {} =>
        /\ up => config.id
        /\ file # Torn => file.id

(* What a caller is going to set or to read again is an access token.        *)
AccessInv == "lost" \notin excuse => \A c \in Callers :
    /\ call[c].at \in {"granted", "set"} => call[c].told.access # 0
    /\ call[c].at \in {"read", "save", "write", "unlock"} => accessToken # 0

(* There is no refresh token that the server has not issued.                 *)
IssuedInv ==
    /\ refreshToken <= issued /\ config.refresh <= issued
    /\ file \in Configs => file.refresh <= issued
    /\ \A n \in good : 1 <= n /\ n <= issued
    /\ \A c \in Callers : call[c].with <= issued /\ call[c].told.refresh <= issued

(* The refresh token of a grant that is on its way to SetOAuthToken.         *)
Told(c) == IF call[c].at \in {"granted", "set"} THEN call[c].told.refresh ELSE 0

(* Nobody has seen such a token yet, and the server takes it.                *)
FreshInv == "lost" \notin excuse =>
    \A c \in Callers : Told(c) # 0 =>
        /\ Told(c) \in good
        /\ Told(c) # refreshToken /\ Told(c) # config.refresh
        /\ \A d \in Callers : call[d].with # Told(c) /\ (d # c => Told(d) # Told(c))

(* Refresh token n, or the lack of one, is as it should be.                  *)
Held(n) == n \in good \/ (good = {} /\ n = 0)

(* A device that has lost nothing has a token that the server takes, or one  *)
(* is on its way to it; while it is down, the token is in the file.          *)
ChainInv == excuse \subseteq {"new"} =>
    /\ up => Held(refreshToken) \/ \E c \in Callers : Told(c) # 0
    /\ ~ up => IF file = Absent THEN good = {} ELSE Held(file.refresh)

IInv == TypeOK /\ FileInv /\ IdInv /\ AccessInv /\ IssuedInv /\ FreshInv /\ ChainInv

-----------------------------------------------------------------------------
(* The end of the process keeps the types. *)
LEMMA DieTyped ==
    ASSUME TypeOK, Die
    PROVE  TypeOK'
<1>1. excuse' \subseteq {"new", "torn", "unsaved", "lost", "omitted"}
    BY Zenon DEF Die, TypeOK
<1>2. call' \in [Callers -> [at : Labels, with : Grants, told : [access : Grants, refresh : Grants]]]
    BY GrantsAssumption DEF Die, Idle, NoAnswer, Labels, Grants
<1>3. NoConfig \in Configs
    BY GrantsAssumption DEF NoConfig, Configs, Grants
<1>4. \A c \in Callers : mu' = c <=> call'[c].at \in {"save", "write", "unlock"}
    BY DistinctAssumption DEF Die, Idle
<1>5. accessToken' \in Grants /\ refreshToken' \in Grants
    BY GrantsAssumption DEF Die, Grants
<1>6. UNCHANGED <<file, server, clock>> /\ mu' = Nil /\ up' = FALSE /\ config' = NoConfig
    BY DEF Die
<1>7. QED
    BY <1>1, <1>2, <1>3, <1>4, <1>5, <1>6 DEF TypeOK, server, clock

(* Every step keeps the types, and the lock with the caller that saves. *)
LEMMA TypeStep ==
    ASSUME TypeOK, [Next]_vars
    PROVE  TypeOK'
<1> USE GrantsAssumption, DistinctAssumption
<1>1. CASE Open
    BY <1>1 DEF Open, Load, NoConfig, server, clock, TypeOK, Labels, Configs, Grants
<1>2. CASE Crash
    BY <1>2, DieTyped DEF Crash
<1>3. CASE Expire
    <2>1. 1 .. issued \subseteq Grants
        BY DEF TypeOK, Grants
    <2>2. expiredAccess' \subseteq Grants /\ expiredRefresh' \subseteq Grants
        BY <1>3, <2>1 DEF Expire, TypeOK
    <2>3. QED
        BY <1>3, <2>2 DEF Expire, TypeOK, memory, server
<1>4. ASSUME NEW c \in Callers, GetAccessToken(c) PROVE TypeOK'
    BY <1>4
       DEF GetAccessToken, To, At, memory, server, clock, TypeOK, Labels, Configs,
           Grants
<1>5. ASSUME NEW c \in Callers, ReadAccess(c) PROVE TypeOK'
    BY <1>5
       DEF ReadAccess, Return, At, Idle, NoAnswer, memory, server, clock, TypeOK,
           Labels, Configs, Grants
<1>6. ASSUME NEW c \in Callers, PostOAuthTokenRefreshToken(c) PROVE TypeOK'
    <2>1. call[c] \in [at : Labels, with : Grants, told : [access : Grants, refresh : Grants]]
        BY DEF TypeOK
    <2>2. /\ call' = [d \in Callers |-> call'[d]]
          /\ call'[c].at = "header" /\ call'[c].with = refreshToken
          /\ call'[c] = [at |-> call'[c].at, with |-> call'[c].with, told |-> call[c].told]
          /\ \A d \in Callers : d # c => call'[d] = call[d]
        BY <1>6, <2>1 DEF PostOAuthTokenRefreshToken, TypeOK
    <2>3. call' \in [Callers -> [at : Labels, with : Grants, told : [access : Grants, refresh : Grants]]]
        <3>1. call'[c] \in [at : Labels, with : Grants, told : [access : Grants, refresh : Grants]]
            BY <2>1, <2>2 DEF TypeOK, Labels
        <3>2. \A d \in Callers : call'[d] \in [at : Labels, with : Grants, told : [access : Grants, refresh : Grants]]
            BY <2>2, <3>1 DEF TypeOK
        <3>3. QED
            BY <2>2, <3>2
    <2>4. \A d \in Callers : mu' = d <=> call'[d].at \in {"save", "write", "unlock"}
        BY <1>6, <2>2 DEF PostOAuthTokenRefreshToken, TypeOK, memory, At
    <2>5. QED
        BY <1>6, <2>3, <2>4
           DEF PostOAuthTokenRefreshToken, TypeOK, memory, server, clock
<1>7. ASSUME NEW c \in Callers, PostOAuthTokenCode(c) PROVE TypeOK'
    BY <1>7
       DEF PostOAuthTokenCode, To, At, memory, server, clock, TypeOK, Labels, Configs,
           Grants
<1>8. ASSUME NEW c \in Callers, BuildHeader(c) PROVE TypeOK'
    BY <1>8
       DEF BuildHeader, To, At, memory, server, clock, TypeOK, Labels, Configs, Grants
<1>9. ASSUME NEW c \in Callers, Grant(c) PROVE TypeOK'
    BY <1>9 DEF Grant, At, memory, clock, TypeOK, Labels, Configs, Grants
<1>10. ASSUME NEW c \in Callers, Refuse(c) PROVE TypeOK'
    BY <1>10 DEF Refuse, To, At, memory, server, clock, TypeOK, Labels, Configs, Grants
<1>11. ASSUME NEW c \in Callers, Status(c) PROVE TypeOK'
    BY <1>11
       DEF Status, Return, At, Idle, NoAnswer, memory, server, clock, TypeOK, Labels,
           Configs, Grants
<1>12. ASSUME NEW c \in Callers, Unmarshal(c) PROVE TypeOK'
    BY <1>12
       DEF Unmarshal, To, At, memory, server, clock, TypeOK, Labels, Configs, Grants
<1>13. ASSUME NEW c \in Callers, AnswerLost(c) PROVE TypeOK'
    BY <1>13
       DEF AnswerLost, Return, At, Idle, NoAnswer, memory, server, clock, TypeOK,
           Labels, Configs, Grants
<1>14. ASSUME NEW c \in Callers, SetOAuthToken(c) PROVE TypeOK'
    BY <1>14
       DEF SetOAuthToken, Assign, Kept, To, At, server, clock, TypeOK, Labels, Configs,
           Grants
<1>15. ASSUME NEW c \in Callers, Truncate(c) PROVE TypeOK'
    BY <1>15
       DEF Truncate, To, At, memory, server, clock, TypeOK, Labels, Configs, Grants
<1>16. ASSUME NEW c \in Callers, Write(c) PROVE TypeOK'
    BY <1>16 DEF Write, To, At, memory, server, clock, TypeOK, Labels, Configs, Grants
<1>17. ASSUME NEW c \in Callers, SaveFails(c) PROVE TypeOK'
    BY <1>17
       DEF SaveFails, To, At, memory, server, clock, TypeOK, Labels, Configs, Grants
<1>18. ASSUME NEW c \in Callers, Unlock(c) PROVE TypeOK'
    BY <1>18
       DEF Unlock, To, Return, At, Idle, NoAnswer, server, clock, TypeOK, Labels,
           Configs, Grants
<1>19. ASSUME NEW c \in Callers, Panic(c) PROVE TypeOK'
    BY <1>19, DieTyped DEF Panic
<1>20. CASE UNCHANGED vars
    BY <1>20 DEF vars, memory, server, clock, TypeOK, Labels, Configs, Grants
<1>21. QED
    BY <1>1, <1>2, <1>3, <1>4, <1>5, <1>6, <1>7, <1>8, <1>9, <1>10, <1>11, <1>12, <1>13, <1>14, <1>15,
       <1>16, <1>17, <1>18, <1>19, <1>20 DEF Next

(* Every step keeps the config, the file and the calls together. *)
LEMMA FileStep ==
    ASSUME TypeOK, FileInv, [Next]_vars
    PROVE  FileInv'
<1> USE GrantsAssumption, DistinctAssumption
<1>1. CASE Open
    <2>1. config' \in Configs /\ config' = Load /\ up' /\ UNCHANGED <<call, excuse>>
        BY <1>1 DEF Open, Load, NoConfig, TypeOK, Configs, Grants
    <2>2. accessToken' = config'.access /\ refreshToken' = config'.refresh
        BY <1>1 DEF Open
    <2>3. CASE file = Torn
        BY <1>1, <2>1, <2>2, <2>3 DEF Open, FileInv
    <2>4. CASE file = Absent
        BY <1>1, <2>1, <2>2, <2>4 DEF Open, FileInv, Load
    <2>5. CASE file \in Configs
        BY <1>1, <2>1, <2>2, <2>5 DEF Open, FileInv, Load
    <2>6. QED
        BY <2>3, <2>4, <2>5 DEF TypeOK
<1>2. CASE Crash
    BY <1>2
       DEF Crash, Die, NoConfig, Idle, NoAnswer, server, clock, TypeOK, Labels,
           Configs, Grants, FileInv
<1>3. CASE Expire
    BY <1>3 DEF Expire, memory, server, TypeOK, Labels, Configs, Grants, FileInv
<1>4. ASSUME NEW c \in Callers, GetAccessToken(c) PROVE FileInv'
    BY <1>4
       DEF GetAccessToken, To, At, memory, server, clock, TypeOK, Labels, Configs,
           Grants, FileInv
<1>5. ASSUME NEW c \in Callers, ReadAccess(c) PROVE FileInv'
    BY <1>5
       DEF ReadAccess, Return, At, Idle, NoAnswer, memory, server, clock, TypeOK,
           Labels, Configs, Grants, FileInv
<1>6. ASSUME NEW c \in Callers, PostOAuthTokenRefreshToken(c) PROVE FileInv'
    BY <1>6
       DEF PostOAuthTokenRefreshToken, At, memory, server, clock, TypeOK, Labels,
           Configs, Grants, FileInv
<1>7. ASSUME NEW c \in Callers, PostOAuthTokenCode(c) PROVE FileInv'
    BY <1>7
       DEF PostOAuthTokenCode, To, At, memory, server, clock, TypeOK, Labels, Configs,
           Grants, FileInv
<1>8. ASSUME NEW c \in Callers, BuildHeader(c) PROVE FileInv'
    BY <1>8
       DEF BuildHeader, To, At, memory, server, clock, TypeOK, Labels, Configs, Grants,
           FileInv
<1>9. ASSUME NEW c \in Callers, Grant(c) PROVE FileInv'
    BY <1>9 DEF Grant, At, memory, clock, TypeOK, Labels, Configs, Grants, FileInv
<1>10. ASSUME NEW c \in Callers, Refuse(c) PROVE FileInv'
    BY <1>10
       DEF Refuse, To, At, memory, server, clock, TypeOK, Labels, Configs, Grants,
           FileInv
<1>11. ASSUME NEW c \in Callers, Status(c) PROVE FileInv'
    BY <1>11
       DEF Status, Return, At, Idle, NoAnswer, memory, server, clock, TypeOK, Labels,
           Configs, Grants, FileInv
<1>12. ASSUME NEW c \in Callers, Unmarshal(c) PROVE FileInv'
    BY <1>12
       DEF Unmarshal, To, At, memory, server, clock, TypeOK, Labels, Configs, Grants,
           FileInv
<1>13. ASSUME NEW c \in Callers, AnswerLost(c) PROVE FileInv'
    BY <1>13
       DEF AnswerLost, Return, At, Idle, NoAnswer, memory, server, clock, TypeOK,
           Labels, Configs, Grants, FileInv
<1>14. ASSUME NEW c \in Callers, SetOAuthToken(c) PROVE FileInv'
    BY <1>14
       DEF SetOAuthToken, Assign, Kept, To, At, server, clock, TypeOK, Labels, Configs,
           Grants, FileInv
<1>15. ASSUME NEW c \in Callers, Truncate(c) PROVE FileInv'
    BY <1>15
       DEF Truncate, To, At, memory, server, clock, TypeOK, Labels, Configs, Grants,
           FileInv
<1>16. ASSUME NEW c \in Callers, Write(c) PROVE FileInv'
    BY <1>16
       DEF Write, To, At, memory, server, clock, TypeOK, Labels, Configs, Grants,
           FileInv
<1>17. ASSUME NEW c \in Callers, SaveFails(c) PROVE FileInv'
    BY <1>17
       DEF SaveFails, To, At, memory, server, clock, TypeOK, Labels, Configs, Grants,
           FileInv
<1>18. ASSUME NEW c \in Callers, Unlock(c) PROVE FileInv'
    BY <1>18
       DEF Unlock, To, Return, At, Idle, NoAnswer, server, clock, TypeOK, Labels,
           Configs, Grants, FileInv
<1>19. ASSUME NEW c \in Callers, Panic(c) PROVE FileInv'
    BY <1>19
       DEF Panic, Die, NoConfig, At, Idle, NoAnswer, server, clock, TypeOK, Labels,
           Configs, Grants, FileInv
<1>20. CASE UNCHANGED vars
    BY <1>20 DEF vars, memory, server, clock, TypeOK, Labels, Configs, Grants, FileInv
<1>21. QED
    BY <1>1, <1>2, <1>3, <1>4, <1>5, <1>6, <1>7, <1>8, <1>9, <1>10, <1>11, <1>12, <1>13, <1>14, <1>15,
       <1>16, <1>17, <1>18, <1>19, <1>20 DEF Next

(* Every step keeps the id. *)
LEMMA IdStep ==
    ASSUME TypeOK, FileInv, IdInv, [Next]_vars
    PROVE  IdInv'
<1> USE GrantsAssumption, DistinctAssumption
<1>1. CASE Open
    BY <1>1
       DEF Open, Load, NoConfig, server, clock, TypeOK, Labels, Configs, Grants,
           FileInv, IdInv
<1>2. CASE Crash
    BY <1>2
       DEF Crash, Die, NoConfig, Idle, NoAnswer, server, clock, TypeOK, Labels,
           Configs, Grants, FileInv, IdInv
<1>3. CASE Expire
    BY <1>3 DEF Expire, memory, server, TypeOK, Labels, Configs, Grants, FileInv, IdInv
<1>4. ASSUME NEW c \in Callers, GetAccessToken(c) PROVE IdInv'
    BY <1>4
       DEF GetAccessToken, To, At, memory, server, clock, TypeOK, Labels, Configs,
           Grants, FileInv, IdInv
<1>5. ASSUME NEW c \in Callers, ReadAccess(c) PROVE IdInv'
    BY <1>5
       DEF ReadAccess, Return, At, Idle, NoAnswer, memory, server, clock, TypeOK,
           Labels, Configs, Grants, FileInv, IdInv
<1>6. ASSUME NEW c \in Callers, PostOAuthTokenRefreshToken(c) PROVE IdInv'
    BY <1>6
       DEF PostOAuthTokenRefreshToken, At, memory, server, clock, TypeOK, Labels,
           Configs, Grants, FileInv, IdInv
<1>7. ASSUME NEW c \in Callers, PostOAuthTokenCode(c) PROVE IdInv'
    BY <1>7
       DEF PostOAuthTokenCode, To, At, memory, server, clock, TypeOK, Labels, Configs,
           Grants, FileInv, IdInv
<1>8. ASSUME NEW c \in Callers, BuildHeader(c) PROVE IdInv'
    BY <1>8
       DEF BuildHeader, To, At, memory, server, clock, TypeOK, Labels, Configs, Grants,
           FileInv, IdInv
<1>9. ASSUME NEW c \in Callers, Grant(c) PROVE IdInv'
    BY <1>9
       DEF Grant, At, memory, clock, TypeOK, Labels, Configs, Grants, FileInv, IdInv
<1>10. ASSUME NEW c \in Callers, Refuse(c) PROVE IdInv'
    BY <1>10
       DEF Refuse, To, At, memory, server, clock, TypeOK, Labels, Configs, Grants,
           FileInv, IdInv
<1>11. ASSUME NEW c \in Callers, Status(c) PROVE IdInv'
    BY <1>11
       DEF Status, Return, At, Idle, NoAnswer, memory, server, clock, TypeOK, Labels,
           Configs, Grants, FileInv, IdInv
<1>12. ASSUME NEW c \in Callers, Unmarshal(c) PROVE IdInv'
    BY <1>12
       DEF Unmarshal, To, At, memory, server, clock, TypeOK, Labels, Configs, Grants,
           FileInv, IdInv
<1>13. ASSUME NEW c \in Callers, AnswerLost(c) PROVE IdInv'
    BY <1>13
       DEF AnswerLost, Return, At, Idle, NoAnswer, memory, server, clock, TypeOK,
           Labels, Configs, Grants, FileInv, IdInv
<1>14. ASSUME NEW c \in Callers, SetOAuthToken(c) PROVE IdInv'
    BY <1>14
       DEF SetOAuthToken, Assign, Kept, To, At, server, clock, TypeOK, Labels, Configs,
           Grants, FileInv, IdInv
<1>15. ASSUME NEW c \in Callers, Truncate(c) PROVE IdInv'
    BY <1>15
       DEF Truncate, To, At, memory, server, clock, TypeOK, Labels, Configs, Grants,
           FileInv, IdInv
<1>16. ASSUME NEW c \in Callers, Write(c) PROVE IdInv'
    BY <1>16
       DEF Write, To, At, memory, server, clock, TypeOK, Labels, Configs, Grants,
           FileInv, IdInv
<1>17. ASSUME NEW c \in Callers, SaveFails(c) PROVE IdInv'
    BY <1>17
       DEF SaveFails, To, At, memory, server, clock, TypeOK, Labels, Configs, Grants,
           FileInv, IdInv
<1>18. ASSUME NEW c \in Callers, Unlock(c) PROVE IdInv'
    BY <1>18
       DEF Unlock, To, Return, At, Idle, NoAnswer, server, clock, TypeOK, Labels,
           Configs, Grants, FileInv, IdInv
<1>19. ASSUME NEW c \in Callers, Panic(c) PROVE IdInv'
    BY <1>19
       DEF Panic, Die, NoConfig, At, Idle, NoAnswer, server, clock, TypeOK, Labels,
           Configs, Grants, FileInv, IdInv
<1>20. CASE UNCHANGED vars
    BY <1>20
       DEF vars, memory, server, clock, TypeOK, Labels, Configs, Grants, FileInv, IdInv
<1>21. QED
    BY <1>1, <1>2, <1>3, <1>4, <1>5, <1>6, <1>7, <1>8, <1>9, <1>10, <1>11, <1>12, <1>13, <1>14, <1>15,
       <1>16, <1>17, <1>18, <1>19, <1>20 DEF Next

(* Every step keeps the access tokens of calls that succeed. *)
LEMMA AccessStep ==
    ASSUME TypeOK, FileInv, AccessInv, [Next]_vars
    PROVE  AccessInv'
<1> USE GrantsAssumption, DistinctAssumption
<1>1. CASE Open
    BY <1>1
       DEF Open, Load, NoConfig, server, clock, TypeOK, Labels, Configs, Grants,
           FileInv, AccessInv
<1>2. CASE Crash
    BY <1>2
       DEF Crash, Die, NoConfig, Idle, NoAnswer, server, clock, TypeOK, Labels,
           Configs, Grants, FileInv, AccessInv
<1>3. CASE Expire
    BY <1>3
       DEF Expire, memory, server, TypeOK, Labels, Configs, Grants, FileInv, AccessInv
<1>4. ASSUME NEW c \in Callers, GetAccessToken(c) PROVE AccessInv'
    BY <1>4
       DEF GetAccessToken, To, At, memory, server, clock, TypeOK, Labels, Configs,
           Grants, FileInv, AccessInv
<1>5. ASSUME NEW c \in Callers, ReadAccess(c) PROVE AccessInv'
    BY <1>5
       DEF ReadAccess, Return, At, Idle, NoAnswer, memory, server, clock, TypeOK,
           Labels, Configs, Grants, FileInv, AccessInv
<1>6. ASSUME NEW c \in Callers, PostOAuthTokenRefreshToken(c) PROVE AccessInv'
    BY <1>6
       DEF PostOAuthTokenRefreshToken, At, memory, server, clock, TypeOK, Labels,
           Configs, Grants, FileInv, AccessInv
<1>7. ASSUME NEW c \in Callers, PostOAuthTokenCode(c) PROVE AccessInv'
    BY <1>7
       DEF PostOAuthTokenCode, To, At, memory, server, clock, TypeOK, Labels, Configs,
           Grants, FileInv, AccessInv
<1>8. ASSUME NEW c \in Callers, BuildHeader(c) PROVE AccessInv'
    BY <1>8
       DEF BuildHeader, To, At, memory, server, clock, TypeOK, Labels, Configs, Grants,
           FileInv, AccessInv
<1>9. ASSUME NEW c \in Callers, Grant(c) PROVE AccessInv'
    BY <1>9
       DEF Grant, At, memory, clock, TypeOK, Labels, Configs, Grants, FileInv,
           AccessInv
<1>10. ASSUME NEW c \in Callers, Refuse(c) PROVE AccessInv'
    BY <1>10
       DEF Refuse, To, At, memory, server, clock, TypeOK, Labels, Configs, Grants,
           FileInv, AccessInv
<1>11. ASSUME NEW c \in Callers, Status(c) PROVE AccessInv'
    BY <1>11
       DEF Status, Return, At, Idle, NoAnswer, memory, server, clock, TypeOK, Labels,
           Configs, Grants, FileInv, AccessInv
<1>12. ASSUME NEW c \in Callers, Unmarshal(c) PROVE AccessInv'
    BY <1>12
       DEF Unmarshal, To, At, memory, server, clock, TypeOK, Labels, Configs, Grants,
           FileInv, AccessInv
<1>13. ASSUME NEW c \in Callers, AnswerLost(c) PROVE AccessInv'
    BY <1>13
       DEF AnswerLost, Return, At, Idle, NoAnswer, memory, server, clock, TypeOK,
           Labels, Configs, Grants, FileInv, AccessInv
<1>14. ASSUME NEW c \in Callers, SetOAuthToken(c) PROVE AccessInv'
    BY <1>14
       DEF SetOAuthToken, Assign, Kept, To, At, server, clock, TypeOK, Labels, Configs,
           Grants, FileInv, AccessInv
<1>15. ASSUME NEW c \in Callers, Truncate(c) PROVE AccessInv'
    BY <1>15
       DEF Truncate, To, At, memory, server, clock, TypeOK, Labels, Configs, Grants,
           FileInv, AccessInv
<1>16. ASSUME NEW c \in Callers, Write(c) PROVE AccessInv'
    BY <1>16
       DEF Write, To, At, memory, server, clock, TypeOK, Labels, Configs, Grants,
           FileInv, AccessInv
<1>17. ASSUME NEW c \in Callers, SaveFails(c) PROVE AccessInv'
    BY <1>17
       DEF SaveFails, To, At, memory, server, clock, TypeOK, Labels, Configs, Grants,
           FileInv, AccessInv
<1>18. ASSUME NEW c \in Callers, Unlock(c) PROVE AccessInv'
    BY <1>18
       DEF Unlock, To, Return, At, Idle, NoAnswer, server, clock, TypeOK, Labels,
           Configs, Grants, FileInv, AccessInv
<1>19. ASSUME NEW c \in Callers, Panic(c) PROVE AccessInv'
    BY <1>19
       DEF Panic, Die, NoConfig, At, Idle, NoAnswer, server, clock, TypeOK, Labels,
           Configs, Grants, FileInv, AccessInv
<1>20. CASE UNCHANGED vars
    BY <1>20
       DEF vars, memory, server, clock, TypeOK, Labels, Configs, Grants, FileInv,
           AccessInv
<1>21. QED
    BY <1>1, <1>2, <1>3, <1>4, <1>5, <1>6, <1>7, <1>8, <1>9, <1>10, <1>11, <1>12, <1>13, <1>14, <1>15,
       <1>16, <1>17, <1>18, <1>19, <1>20 DEF Next

(* Every refresh token comes from the server. *)
LEMMA IssuedStep ==
    ASSUME TypeOK, FileInv, IssuedInv, [Next]_vars
    PROVE  IssuedInv'
<1> USE GrantsAssumption, DistinctAssumption
<1>1. CASE Open
    BY <1>1
       DEF Open, Load, NoConfig, server, clock, TypeOK, Labels, Configs, Grants,
           FileInv, IssuedInv
<1>2. CASE Crash
    BY <1>2
       DEF Crash, Die, NoConfig, Idle, NoAnswer, server, clock, TypeOK, Labels,
           Configs, Grants, FileInv, IssuedInv
<1>3. CASE Expire
    BY <1>3
       DEF Expire, memory, server, TypeOK, Labels, Configs, Grants, FileInv, IssuedInv
<1>4. ASSUME NEW c \in Callers, GetAccessToken(c) PROVE IssuedInv'
    BY <1>4
       DEF GetAccessToken, To, At, memory, server, clock, TypeOK, Labels, Configs,
           Grants, FileInv, IssuedInv
<1>5. ASSUME NEW c \in Callers, ReadAccess(c) PROVE IssuedInv'
    BY <1>5
       DEF ReadAccess, Return, At, Idle, NoAnswer, memory, server, clock, TypeOK,
           Labels, Configs, Grants, FileInv, IssuedInv
<1>6. ASSUME NEW c \in Callers, PostOAuthTokenRefreshToken(c) PROVE IssuedInv'
    BY <1>6
       DEF PostOAuthTokenRefreshToken, At, memory, server, clock, TypeOK, Labels,
           Configs, Grants, FileInv, IssuedInv
<1>7. ASSUME NEW c \in Callers, PostOAuthTokenCode(c) PROVE IssuedInv'
    BY <1>7
       DEF PostOAuthTokenCode, To, At, memory, server, clock, TypeOK, Labels, Configs,
           Grants, FileInv, IssuedInv
<1>8. ASSUME NEW c \in Callers, BuildHeader(c) PROVE IssuedInv'
    BY <1>8
       DEF BuildHeader, To, At, memory, server, clock, TypeOK, Labels, Configs, Grants,
           FileInv, IssuedInv
<1>9. ASSUME NEW c \in Callers, Grant(c) PROVE IssuedInv'
    BY <1>9
       DEF Grant, At, memory, clock, TypeOK, Labels, Configs, Grants, FileInv,
           IssuedInv
<1>10. ASSUME NEW c \in Callers, Refuse(c) PROVE IssuedInv'
    BY <1>10
       DEF Refuse, To, At, memory, server, clock, TypeOK, Labels, Configs, Grants,
           FileInv, IssuedInv
<1>11. ASSUME NEW c \in Callers, Status(c) PROVE IssuedInv'
    BY <1>11
       DEF Status, Return, At, Idle, NoAnswer, memory, server, clock, TypeOK, Labels,
           Configs, Grants, FileInv, IssuedInv
<1>12. ASSUME NEW c \in Callers, Unmarshal(c) PROVE IssuedInv'
    BY <1>12
       DEF Unmarshal, To, At, memory, server, clock, TypeOK, Labels, Configs, Grants,
           FileInv, IssuedInv
<1>13. ASSUME NEW c \in Callers, AnswerLost(c) PROVE IssuedInv'
    BY <1>13
       DEF AnswerLost, Return, At, Idle, NoAnswer, memory, server, clock, TypeOK,
           Labels, Configs, Grants, FileInv, IssuedInv
<1>14. ASSUME NEW c \in Callers, SetOAuthToken(c) PROVE IssuedInv'
    BY <1>14
       DEF SetOAuthToken, Assign, Kept, To, At, server, clock, TypeOK, Labels, Configs,
           Grants, FileInv, IssuedInv
<1>15. ASSUME NEW c \in Callers, Truncate(c) PROVE IssuedInv'
    BY <1>15
       DEF Truncate, To, At, memory, server, clock, TypeOK, Labels, Configs, Grants,
           FileInv, IssuedInv
<1>16. ASSUME NEW c \in Callers, Write(c) PROVE IssuedInv'
    BY <1>16
       DEF Write, To, At, memory, server, clock, TypeOK, Labels, Configs, Grants,
           FileInv, IssuedInv
<1>17. ASSUME NEW c \in Callers, SaveFails(c) PROVE IssuedInv'
    BY <1>17
       DEF SaveFails, To, At, memory, server, clock, TypeOK, Labels, Configs, Grants,
           FileInv, IssuedInv
<1>18. ASSUME NEW c \in Callers, Unlock(c) PROVE IssuedInv'
    BY <1>18
       DEF Unlock, To, Return, At, Idle, NoAnswer, server, clock, TypeOK, Labels,
           Configs, Grants, FileInv, IssuedInv
<1>19. ASSUME NEW c \in Callers, Panic(c) PROVE IssuedInv'
    BY <1>19
       DEF Panic, Die, NoConfig, At, Idle, NoAnswer, server, clock, TypeOK, Labels,
           Configs, Grants, FileInv, IssuedInv
<1>20. CASE UNCHANGED vars
    BY <1>20
       DEF vars, memory, server, clock, TypeOK, Labels, Configs, Grants, FileInv,
           IssuedInv
<1>21. QED
    BY <1>1, <1>2, <1>3, <1>4, <1>5, <1>6, <1>7, <1>8, <1>9, <1>10, <1>11, <1>12, <1>13, <1>14, <1>15,
       <1>16, <1>17, <1>18, <1>19, <1>20 DEF Next

(* A refresh token is seen by nobody before it is set. *)
LEMMA FreshStep ==
    ASSUME TypeOK, FileInv, IssuedInv, FreshInv, [Next]_vars
    PROVE  FreshInv'
<1> USE GrantsAssumption, DistinctAssumption
<1>1. CASE Open
    BY <1>1
       DEF Open, Load, NoConfig, server, clock, TypeOK, Labels, Configs, Grants,
           FileInv, IssuedInv, FreshInv, Told
<1>2. CASE Crash
    BY <1>2
       DEF Crash, Die, NoConfig, Idle, NoAnswer, server, clock, TypeOK, Labels,
           Configs, Grants, FileInv, IssuedInv, FreshInv, Told
<1>3. CASE Expire
    BY <1>3
       DEF Expire, memory, server, TypeOK, Labels, Configs, Grants, FileInv, IssuedInv,
           FreshInv, Told
<1>4. ASSUME NEW c \in Callers, GetAccessToken(c) PROVE FreshInv'
    BY <1>4
       DEF GetAccessToken, To, At, memory, server, clock, TypeOK, Labels, Configs,
           Grants, FileInv, IssuedInv, FreshInv, Told
<1>5. ASSUME NEW c \in Callers, ReadAccess(c) PROVE FreshInv'
    BY <1>5
       DEF ReadAccess, Return, At, Idle, NoAnswer, memory, server, clock, TypeOK,
           Labels, Configs, Grants, FileInv, IssuedInv, FreshInv, Told
<1>6. ASSUME NEW c \in Callers, PostOAuthTokenRefreshToken(c) PROVE FreshInv'
    BY <1>6
       DEF PostOAuthTokenRefreshToken, At, memory, server, clock, TypeOK, Labels,
           Configs, Grants, FileInv, IssuedInv, FreshInv, Told
<1>7. ASSUME NEW c \in Callers, PostOAuthTokenCode(c) PROVE FreshInv'
    BY <1>7
       DEF PostOAuthTokenCode, To, At, memory, server, clock, TypeOK, Labels, Configs,
           Grants, FileInv, IssuedInv, FreshInv, Told
<1>8. ASSUME NEW c \in Callers, BuildHeader(c) PROVE FreshInv'
    BY <1>8
       DEF BuildHeader, To, At, memory, server, clock, TypeOK, Labels, Configs, Grants,
           FileInv, IssuedInv, FreshInv, Told
<1>9. ASSUME NEW c \in Callers, Grant(c) PROVE FreshInv'
    <2>1. call[c] \in [at : Labels, with : Grants, told : [access : Grants, refresh : Grants]]
        BY DEF TypeOK
    <2>2. up /\ UNCHANGED <<memory, file, up, excuse>>
        BY <1>9 DEF Grant, At, FileInv
    <2>3. CASE /\ call' = [call EXCEPT ![c].at = "granted",
                                     ![c].told = [access |-> issued', refresh |-> issued']]
               /\ good' = (good \ {call[c].with}) \cup {issued'}
        <3>1. /\ call'[c].at = "granted" /\ call'[c].with = call[c].with
              /\ call'[c].told.refresh = issued'
              /\ \A d \in Callers : d # c => call'[d] = call[d]
            BY <2>1, <2>3 DEF TypeOK
        <3>2. Told(c)' = issued' /\ issued' = issued + 1 /\ issued \in Nat
            BY <1>9, <3>1 DEF Told, Grant, TypeOK, Grants
        <3>3. \A d \in Callers : /\ call'[d].with = call[d].with
                                 /\ d # c => Told(d)' = Told(d)
            BY <3>1 DEF Told, TypeOK
        <3>4. QED
            BY <2>2, <2>3, <3>1, <3>2, <3>3
               DEF FreshInv, IssuedInv, TypeOK, Grants, memory, Told
    <2>4. CASE /\ call' = [call EXCEPT ![c].at = "granted",
                                     ![c].told = [access |-> issued', refresh |-> 0]]
               /\ good' = good
        <3>1. /\ call'[c].at = "granted" /\ call'[c].with = call[c].with
              /\ call'[c].told.refresh = 0
              /\ \A d \in Callers : d # c => call'[d] = call[d]
            BY <2>1, <2>4 DEF TypeOK
        <3>2. Told(c)' = 0 /\ Told(c) = 0
            BY <1>9, <3>1 DEF Told, Grant, At
        <3>3. \A d \in Callers : /\ call'[d].with = call[d].with
                                 /\ Told(d)' = Told(d)
            BY <3>1, <3>2 DEF Told, TypeOK
        <3>4. QED
            BY <2>2, <2>4, <3>2, <3>3
               DEF FreshInv, IssuedInv, TypeOK, Grants, memory, Told
    <2>5. QED
        BY <1>9, <2>3, <2>4 DEF Grant
<1>10. ASSUME NEW c \in Callers, Refuse(c) PROVE FreshInv'
    BY <1>10
       DEF Refuse, To, At, memory, server, clock, TypeOK, Labels, Configs, Grants,
           FileInv, IssuedInv, FreshInv, Told
<1>11. ASSUME NEW c \in Callers, Status(c) PROVE FreshInv'
    BY <1>11
       DEF Status, Return, At, Idle, NoAnswer, memory, server, clock, TypeOK, Labels,
           Configs, Grants, FileInv, IssuedInv, FreshInv, Told
<1>12. ASSUME NEW c \in Callers, Unmarshal(c) PROVE FreshInv'
    BY <1>12
       DEF Unmarshal, To, At, memory, server, clock, TypeOK, Labels, Configs, Grants,
           FileInv, IssuedInv, FreshInv, Told
<1>13. ASSUME NEW c \in Callers, AnswerLost(c) PROVE FreshInv'
    BY <1>13
       DEF AnswerLost, Return, At, Idle, NoAnswer, memory, server, clock, TypeOK,
           Labels, Configs, Grants, FileInv, IssuedInv, FreshInv, Told
<1>14. ASSUME NEW c \in Callers, SetOAuthToken(c) PROVE FreshInv'
    BY <1>14
       DEF SetOAuthToken, Assign, Kept, To, At, server, clock, TypeOK, Labels, Configs,
           Grants, FileInv, IssuedInv, FreshInv, Told
<1>15. ASSUME NEW c \in Callers, Truncate(c) PROVE FreshInv'
    BY <1>15
       DEF Truncate, To, At, memory, server, clock, TypeOK, Labels, Configs, Grants,
           FileInv, IssuedInv, FreshInv, Told
<1>16. ASSUME NEW c \in Callers, Write(c) PROVE FreshInv'
    BY <1>16
       DEF Write, To, At, memory, server, clock, TypeOK, Labels, Configs, Grants,
           FileInv, IssuedInv, FreshInv, Told
<1>17. ASSUME NEW c \in Callers, SaveFails(c) PROVE FreshInv'
    BY <1>17
       DEF SaveFails, To, At, memory, server, clock, TypeOK, Labels, Configs, Grants,
           FileInv, IssuedInv, FreshInv, Told
<1>18. ASSUME NEW c \in Callers, Unlock(c) PROVE FreshInv'
    BY <1>18
       DEF Unlock, To, Return, At, Idle, NoAnswer, server, clock, TypeOK, Labels,
           Configs, Grants, FileInv, IssuedInv, FreshInv, Told
<1>19. ASSUME NEW c \in Callers, Panic(c) PROVE FreshInv'
    BY <1>19
       DEF Panic, Die, NoConfig, At, Idle, NoAnswer, server, clock, TypeOK, Labels,
           Configs, Grants, FileInv, IssuedInv, FreshInv, Told
<1>20. CASE UNCHANGED vars
    BY <1>20
       DEF vars, memory, server, clock, TypeOK, Labels, Configs, Grants, FileInv,
           IssuedInv, FreshInv, Told
<1>21. QED
    BY <1>1, <1>2, <1>3, <1>4, <1>5, <1>6, <1>7, <1>8, <1>9, <1>10, <1>11, <1>12, <1>13, <1>14, <1>15,
       <1>16, <1>17, <1>18, <1>19, <1>20 DEF Next

(* The newest refresh token is always somewhere. *)
LEMMA ChainStep ==
    ASSUME TypeOK, FileInv, IssuedInv, FreshInv, ChainInv, [Next]_vars
    PROVE  ChainInv'
<1> USE GrantsAssumption, DistinctAssumption
<1>1. CASE Open
    BY <1>1
       DEF Open, Load, NoConfig, server, clock, TypeOK, Labels, Configs, Grants,
           FileInv, IssuedInv, FreshInv, ChainInv, Told, Held
<1>2. CASE Crash
    BY <1>2
       DEF Crash, Die, NoConfig, Idle, NoAnswer, server, clock, TypeOK, Labels,
           Configs, Grants, FileInv, IssuedInv, FreshInv, ChainInv, Told, Held
<1>3. CASE Expire
    BY <1>3
       DEF Expire, memory, server, TypeOK, Labels, Configs, Grants, FileInv, IssuedInv,
           FreshInv, ChainInv, Told, Held
<1>4. ASSUME NEW c \in Callers, GetAccessToken(c) PROVE ChainInv'
    BY <1>4
       DEF GetAccessToken, To, At, memory, server, clock, TypeOK, Labels, Configs,
           Grants, FileInv, IssuedInv, FreshInv, ChainInv, Told, Held
<1>5. ASSUME NEW c \in Callers, ReadAccess(c) PROVE ChainInv'
    BY <1>5
       DEF ReadAccess, Return, At, Idle, NoAnswer, memory, server, clock, TypeOK,
           Labels, Configs, Grants, FileInv, IssuedInv, FreshInv, ChainInv, Told, Held
<1>6. ASSUME NEW c \in Callers, PostOAuthTokenRefreshToken(c) PROVE ChainInv'
    BY <1>6
       DEF PostOAuthTokenRefreshToken, At, memory, server, clock, TypeOK, Labels,
           Configs, Grants, FileInv, IssuedInv, FreshInv, ChainInv, Told, Held
<1>7. ASSUME NEW c \in Callers, PostOAuthTokenCode(c) PROVE ChainInv'
    BY <1>7
       DEF PostOAuthTokenCode, To, At, memory, server, clock, TypeOK, Labels, Configs,
           Grants, FileInv, IssuedInv, FreshInv, ChainInv, Told, Held
<1>8. ASSUME NEW c \in Callers, BuildHeader(c) PROVE ChainInv'
    BY <1>8
       DEF BuildHeader, To, At, memory, server, clock, TypeOK, Labels, Configs, Grants,
           FileInv, IssuedInv, FreshInv, ChainInv, Told, Held
<1>9. ASSUME NEW c \in Callers, Grant(c) PROVE ChainInv'
    <2>1. call[c] \in [at : Labels, with : Grants, told : [access : Grants, refresh : Grants]]
        BY DEF TypeOK
    <2>2. up /\ UNCHANGED <<memory, file, up, excuse>>
        BY <1>9 DEF Grant, At, FileInv
    <2>3. CASE /\ call' = [call EXCEPT ![c].at = "granted",
                                     ![c].told = [access |-> issued', refresh |-> issued']]
               /\ good' = (good \ {call[c].with}) \cup {issued'}
        <3>1. /\ call'[c].at = "granted" /\ call'[c].with = call[c].with
              /\ call'[c].told.refresh = issued'
              /\ \A d \in Callers : d # c => call'[d] = call[d]
            BY <2>1, <2>3 DEF TypeOK
        <3>2. Told(c)' = issued' /\ issued' = issued + 1 /\ issued \in Nat
            BY <1>9, <3>1 DEF Told, Grant, TypeOK, Grants
        <3>3. \A d \in Callers : /\ call'[d].with = call[d].with
                                 /\ d # c => Told(d)' = Told(d)
            BY <3>1 DEF Told, TypeOK
        <3>4. \E d \in Callers : Told(d)' # 0
            BY <3>2
        <3>5. QED
            BY <2>2, <3>4 DEF ChainInv
    <2>4. CASE /\ call' = [call EXCEPT ![c].at = "granted",
                                     ![c].told = [access |-> issued', refresh |-> 0]]
               /\ good' = good
        <3>1. /\ call'[c].at = "granted" /\ call'[c].with = call[c].with
              /\ call'[c].told.refresh = 0
              /\ \A d \in Callers : d # c => call'[d] = call[d]
            BY <2>1, <2>4 DEF TypeOK
        <3>2. Told(c)' = 0 /\ Told(c) = 0
            BY <1>9, <3>1 DEF Told, Grant, At
        <3>3. \A d \in Callers : /\ call'[d].with = call[d].with
                                 /\ Told(d)' = Told(d)
            BY <3>1, <3>2 DEF Told, TypeOK
        <3>4. QED
            BY <2>2, <2>4, <3>2, <3>3 DEF ChainInv, Held, memory, Told
    <2>5. QED
        BY <1>9, <2>3, <2>4 DEF Grant
<1>10. ASSUME NEW c \in Callers, Refuse(c) PROVE ChainInv'
    BY <1>10
       DEF Refuse, To, At, memory, server, clock, TypeOK, Labels, Configs, Grants,
           FileInv, IssuedInv, FreshInv, ChainInv, Told, Held
<1>11. ASSUME NEW c \in Callers, Status(c) PROVE ChainInv'
    BY <1>11
       DEF Status, Return, At, Idle, NoAnswer, memory, server, clock, TypeOK, Labels,
           Configs, Grants, FileInv, IssuedInv, FreshInv, ChainInv, Told, Held
<1>12. ASSUME NEW c \in Callers, Unmarshal(c) PROVE ChainInv'
    BY <1>12
       DEF Unmarshal, To, At, memory, server, clock, TypeOK, Labels, Configs, Grants,
           FileInv, IssuedInv, FreshInv, ChainInv, Told, Held
<1>13. ASSUME NEW c \in Callers, AnswerLost(c) PROVE ChainInv'
    BY <1>13
       DEF AnswerLost, Return, At, Idle, NoAnswer, memory, server, clock, TypeOK,
           Labels, Configs, Grants, FileInv, IssuedInv, FreshInv, ChainInv, Told, Held
<1>14. ASSUME NEW c \in Callers, SetOAuthToken(c) PROVE ChainInv'
    BY <1>14
       DEF SetOAuthToken, Assign, Kept, To, At, server, clock, TypeOK, Labels, Configs,
           Grants, FileInv, IssuedInv, FreshInv, ChainInv, Told, Held
<1>15. ASSUME NEW c \in Callers, Truncate(c) PROVE ChainInv'
    BY <1>15
       DEF Truncate, To, At, memory, server, clock, TypeOK, Labels, Configs, Grants,
           FileInv, IssuedInv, FreshInv, ChainInv, Told, Held
<1>16. ASSUME NEW c \in Callers, Write(c) PROVE ChainInv'
    BY <1>16
       DEF Write, To, At, memory, server, clock, TypeOK, Labels, Configs, Grants,
           FileInv, IssuedInv, FreshInv, ChainInv, Told, Held
<1>17. ASSUME NEW c \in Callers, SaveFails(c) PROVE ChainInv'
    BY <1>17
       DEF SaveFails, To, At, memory, server, clock, TypeOK, Labels, Configs, Grants,
           FileInv, IssuedInv, FreshInv, ChainInv, Told, Held
<1>18. ASSUME NEW c \in Callers, Unlock(c) PROVE ChainInv'
    BY <1>18
       DEF Unlock, To, Return, At, Idle, NoAnswer, server, clock, TypeOK, Labels,
           Configs, Grants, FileInv, IssuedInv, FreshInv, ChainInv, Told, Held
<1>19. ASSUME NEW c \in Callers, Panic(c) PROVE ChainInv'
    BY <1>19
       DEF Panic, Die, NoConfig, At, Idle, NoAnswer, server, clock, TypeOK, Labels,
           Configs, Grants, FileInv, IssuedInv, FreshInv, ChainInv, Told, Held
<1>20. CASE UNCHANGED vars
    BY <1>20
       DEF vars, memory, server, clock, TypeOK, Labels, Configs, Grants, FileInv,
           IssuedInv, FreshInv, ChainInv, Told, Held
<1>21. QED
    BY <1>1, <1>2, <1>3, <1>4, <1>5, <1>6, <1>7, <1>8, <1>9, <1>10, <1>11, <1>12, <1>13, <1>14, <1>15,
       <1>16, <1>17, <1>18, <1>19, <1>20 DEF Next

-----------------------------------------------------------------------------
(* The inductive invariant holds throughout every behaviour.                  *)
THEOREM Invariance == Spec => []IInv
<1>1. Init => IInv
    <2> SUFFICES ASSUME Init PROVE IInv
        OBVIOUS
    <2>1. /\ NoConfig \in Configs /\ NoConfig.access = 0 /\ NoConfig.refresh = 0
          /\ [id |-> TRUE, access |-> 0, refresh |-> 0] \in Configs
        BY GrantsAssumption DEF NoConfig, Configs, Grants
    <2>2. \A c \in Callers : call[c].at = "idle" /\ call[c].with = 0 /\ call[c].told.refresh = 0
        BY DEF Init, Idle, NoAnswer
    <2>3. TypeOK
        <3>1. call \in [Callers -> [at : Labels, with : Grants,
                                   told : [access : Grants, refresh : Grants]]]
            BY GrantsAssumption DEF Init, Idle, NoAnswer, Labels, Grants
        <3>2. 0 \in Grants
            BY GrantsAssumption DEF Grants
        <3>3. \A c \in Callers : mu # c
            BY DistinctAssumption DEF Init
        <3>4. QED
            BY <2>1, <2>2, <3>1, <3>2, <3>3 DEF Init, TypeOK
    <2>4. FileInv
        BY <2>1, <2>2, DistinctAssumption DEF Init, FileInv
    <2>5. IdInv
        BY <2>1 DEF Init, IdInv
    <2>6. AccessInv
        BY <2>2 DEF AccessInv
    <2>7. IssuedInv
        <3>1. file \in Configs => file.refresh = 0
            BY DistinctAssumption DEF Init
        <3>2. QED
            BY <2>1, <2>2, <3>1 DEF Init, IssuedInv
    <2>8. FreshInv
        BY <2>2 DEF FreshInv, Told
    <2>9. ChainInv
        BY <2>1, DistinctAssumption DEF Init, ChainInv, Held
    <2>10. QED
        BY <2>3, <2>4, <2>5, <2>6, <2>7, <2>8, <2>9 DEF IInv
<1>2. IInv /\ [Next]_vars => IInv'
    BY TypeStep, FileStep, IdStep, AccessStep, IssuedStep, FreshStep, ChainStep DEF IInv
<1>3. QED
    BY <1>1, <1>2, PTL DEF Spec

(* The variables keep their types, and tokenMu is held by the one caller that *)
(* is inside SetOAuthToken.                                                   *)
THEOREM Typing == Spec => []TypeOK
<1>1. IInv => TypeOK
    BY DEF IInv
<1>2. QED
    BY <1>1, Invariance, PTL

(* However many callers refresh and sign in at once, and however often the    *)
(* process dies: a device at rest that has lost nothing has a refresh token   *)
(* that the server takes, if the server has ever granted it one.              *)
THEOREM SignedIn == Spec => []StaysSignedIn
<1>1. IInv => StaysSignedIn
    <2> SUFFICES ASSUME IInv, up, excuse \subseteq {"new"}, \A c \in Callers : At(c, "idle")
                 PROVE  refreshToken \in good \cup {0} /\ (good # {} => refreshToken # 0)
        BY DEF StaysSignedIn
    <2>1. \A c \in Callers : Told(c) = 0
        BY DEF Told, At
    <2>2. Held(refreshToken)
        BY <2>1 DEF IInv, ChainInv
    <2>3. \A n \in good : n # 0
        BY GrantsAssumption DEF IInv, IssuedInv, TypeOK, Grants
    <2>4. QED
        BY <2>2, <2>3 DEF Held
<1>2. QED
    BY <1>1, Invariance, PTL

(* A device that was given an id keeps it as long as no save is torn.         *)
THEOREM IdentityKept == Spec => []KeepsIdentity
<1>1. IInv => KeepsIdentity
    BY DEF IInv, IdInv, KeepsIdentity
<1>2. QED
    BY <1>1, Invariance, PTL

(* Between two saves the file, the config and the api agree.                  *)
THEOREM FileAgrees == Spec => []FileFollows
<1>1. IInv => FileFollows
    <2> SUFFICES ASSUME IInv, up, mu = Nil, excuse \cap {"torn", "unsaved"} = {}
                 PROVE  /\ file = config
                        /\ config.access = accessToken
                        /\ config.refresh \in {refreshToken, 0}
        BY DEF FileFollows
    <2>1. \A c \in Callers : call[c].at \notin {"save", "write", "unlock"}
        BY DistinctAssumption DEF IInv, TypeOK
    <2>2. QED
        BY <2>1 DEF IInv, FileInv
<1>2. QED
    BY <1>1, Invariance, PTL

(* GetAccessToken never answers with an empty token.                          *)
THEOREM NoEmptyToken == Spec => []NeverEmpty
<1>1. IInv => NeverEmpty
    BY DEF IInv, AccessInv, NeverEmpty, At
<1>2. QED
    BY <1>1, Invariance, PTL

=============================================================================
