------------------------------- MODULE Access -------------------------------
(***************************************************************************)
(* Who may act as a companion: one-time codes, refresh tokens and the PIN  *)
(* (auth.service.ts), the account's own closing and re-opening             *)
(* (account.service.ts, settings.service.ts), bans by the admin backend    *)
(* (internal.service.ts), and the check every authenticated request passes *)
(* (jwt.strategy.ts).                                                      *)
(*                                                                         *)
(* One companion, whose phone receives the codes.  req[r] is a request in  *)
(* progress: a check at its beginning and the statements it still has to   *)
(* execute.  Access tokens are not revoked; the companion is taken to hold *)
(* a valid one, so that only the check decides.                            *)
(***************************************************************************)
EXTENDS Integers, FiniteSets

CONSTANTS
    Request,        \* requests that may be in progress at once
    MaxAttempts,    \* OTP_MAX_ATTEMPTS
    MaxCode,        \* bound: one-time codes
    MaxToken,       \* bound: refresh tokens
    Allowance       \* bounds: what may still happen, by kind of request

AccessActivity == {"code", "guess", "refresh", "pin", "account", "admin", "fault"}

ASSUME AccessAssumption ==
    /\ IsFiniteSet(Request)
    /\ MaxAttempts \in Nat \ {0}
    /\ MaxCode \in Nat
    /\ MaxToken \in Nat
    /\ Allowance \subseteq [AccessActivity -> Nat]

Code == 1 .. MaxCode
Token == 1 .. MaxToken

VARIABLES
    account,        \* companions.accountStatus; "gone": the row is deleted
    deletedAt,      \* companions.deletedAt is set
    code,           \* one-time codes in the order of their creation
    attempts,       \* wrong guesses counted for each
    token,          \* refresh tokens in the order of their creation
    pin,            \* how companion_pins.pinHash was written
    req,            \* requests in progress
    allowance,      \* bound: what may still happen
    closed,         \* history: the account was closed and not opened since
    cut,            \* history: and its tokens have been revoked since
    late,           \* history: tokens of a sign-in, or of a request under way when the account was closed
    heirs           \* history: tokens issued in exchange for each token

accountVars == <<account, deletedAt>>
codeVars == <<code, attempts>>
accessHistory == <<closed, cut, late, heirs>>
accessVars == <<accountVars, codeVars, token, pin, req, allowance, accessHistory>>

RequestStep ==
    {"idle", "send", "guess", "consume", "issue", "logout", "set_pin", "change_pin",
     "deactivate", "reactivate", "delete", "revoke", "erase"}

(* early: the request was under way when the account was closed.           *)
RequestRow == [ pc : RequestStep, code : 0 .. MaxCode, token : 0 .. MaxToken, early : BOOLEAN ]

NoRequest == [pc |-> "idle", code |-> 0, token |-> 0, early |-> FALSE]

AccessTypeOK ==
    /\ account \in {"active", "suspended", "deleted", "gone"}
    /\ deletedAt \in BOOLEAN
    /\ code \in [Code -> {"unsent", "pending", "expired", "verified", "removed"}]
    /\ attempts \in [Code -> Nat]
    /\ token \in [Token -> {"unused", "live", "revoked"}]
    /\ pin \in {"none", "hashed", "plain"}
    /\ req \in [Request -> RequestRow]
    /\ allowance \in [AccessActivity -> Nat]
    /\ closed \in BOOLEAN
    /\ cut \in BOOLEAN
    /\ late \in SUBSET Token
    /\ heirs \in [Token -> Nat]

AccessInit ==
    /\ account = "active"
    /\ deletedAt = FALSE
    /\ code = [o \in Code |-> "unsent"]
    /\ attempts = [o \in Code |-> 0]
    /\ token = [t \in Token |-> IF t = 1 THEN "live" ELSE "unused"]
    /\ pin = "none"
    /\ req = [r \in Request |-> NoRequest]
    /\ allowance \in Allowance
    /\ closed = FALSE
    /\ cut = FALSE
    /\ late = {}
    /\ heirs = [t \in Token |-> 0]

Allow(activity) ==
    /\ allowance[activity] > 0
    /\ allowance' = [allowance EXCEPT ![activity] = @ - 1]

Begin(r, pc) == req[r].pc = "idle" /\ req' = [req EXCEPT ![r].pc = pc]
Leave(r) == req' = [req EXCEPT ![r] = NoRequest]

(* The account is closed: requests under way may have passed their check.  *)
Close(status, r, pc) ==
    /\ account' = status
    /\ closed' = TRUE
    /\ req' = [o \in Request |->
                 IF o = r THEN [NoRequest EXCEPT !.pc = pc]
                 ELSE [req[o] EXCEPT !.early = @ \/ req[o].pc # "idle"]]

Revoked == [t \in Token |-> IF token[t] = "live" THEN "revoked" ELSE token[t]]

-------------------------------------------------------------------------------
(* Signing in with a code *)

SendOtp(r) ==
    /\ Begin(r, "send")
    /\ Allow("code")
    /\ code' = [o \in Code |-> IF code[o] = "unsent" THEN "unsent" ELSE "removed"]
    /\ UNCHANGED <<accountVars, attempts, token, pin, accessHistory>>

StoreCode(r) ==
    /\ req[r].pc = "send"
    /\ \E o \in Code :
          /\ code[o] = "unsent"
          /\ \A earlier \in 1 .. o - 1 : code[earlier] # "unsent"
          /\ code' = [code EXCEPT ![o] = "pending"]
    /\ Leave(r)
    /\ UNCHANGED <<accountVars, attempts, token, pin, allowance, accessHistory>>

CodeExpires(o) ==
    /\ code[o] = "pending"
    /\ code' = [code EXCEPT ![o] = "expired"]
    /\ UNCHANGED <<accountVars, attempts, token, pin, req, allowance, accessHistory>>

(* The newest code that is not verified.                                   *)
Newest(o) ==
    /\ code[o] \in {"pending", "expired"}
    /\ \A newer \in o + 1 .. MaxCode : code[newer] \notin {"pending", "expired"}

(* Faulty: the attempts are counted and not compared.                      *)
VerifyOtpUncounted(r) ==
    /\ Allow("guess")
    /\ \E o \in Code :
          /\ Newest(o)
          /\ code[o] = "pending"
          /\ req[r].pc = "idle"
          /\ req' = [req EXCEPT ![r].pc = "guess", ![r].code = o]
    /\ UNCHANGED <<accountVars, codeVars, token, pin, accessHistory>>

VerifyOtp(r) ==
    /\ Allow("guess")
    /\ \E o \in Code :
          /\ Newest(o)
          /\ code[o] = "pending"
          /\ attempts[o] < MaxAttempts
          /\ req[r].pc = "idle"
          /\ req' = [req EXCEPT ![r].pc = "guess", ![r].code = o]
    /\ UNCHANGED <<accountVars, codeVars, token, pin, accessHistory>>

(* The row may have been removed meanwhile: then the update throws.        *)
WrongGuess(r) ==
    /\ req[r].pc = "guess"
    /\ attempts' = IF code[req[r].code] = "removed" THEN attempts
                   ELSE [attempts EXCEPT ![req[r].code] = @ + 1]
    /\ Leave(r)
    /\ UNCHANGED <<accountVars, code, token, pin, allowance, accessHistory>>

(* Nobody asks whether the account is closed.  Without a companion row the *)
(* phone is registered anew, as another companion.                         *)
RightGuess(r) ==
    /\ req[r].pc = "guess"
    /\ code[req[r].code] # "removed"
    /\ code' = [code EXCEPT ![req[r].code] = "verified"]
    /\ IF account = "gone" THEN Leave(r) ELSE req' = [req EXCEPT ![r].pc = "issue"]
    /\ UNCHANGED <<accountVars, attempts, token, pin, allowance, accessHistory>>

(* generateTokens: the token refers to the companion row.                  *)
GenerateTokens(r) ==
    /\ req[r].pc = "issue"
    /\ account # "gone"
    /\ \E t \in Token :
          /\ token[t] = "unused"
          /\ \A earlier \in 1 .. t - 1 : token[earlier] # "unused"
          /\ token' = [token EXCEPT ![t] = "live"]
          /\ late' = IF req[r].early \/ req[r].code # 0 THEN late \cup {t} ELSE late
    /\ heirs' = IF req[r].token = 0 THEN heirs ELSE [heirs EXCEPT ![req[r].token] = @ + 1]
    /\ Leave(r)
    /\ UNCHANGED <<accountVars, codeVars, pin, allowance, closed, cut>>

-------------------------------------------------------------------------------
(* Refresh tokens *)

Open == account = "active" /\ ~deletedAt

(* Faulty: the token is looked at, its companion is not.                   *)
RefreshTokenAnyAccount(r) ==
    /\ Allow("refresh")
    /\ req[r].pc = "idle"
    /\ \E t \in Token :
          /\ token[t] = "live"
          /\ req' = [req EXCEPT ![r].pc = "consume", ![r].token = t]
    /\ UNCHANGED <<accountVars, codeVars, token, pin, accessHistory>>

RefreshToken(r) ==
    /\ Allow("refresh")
    /\ req[r].pc = "idle"
    /\ Open
    /\ \E t \in Token :
          /\ token[t] = "live"
          /\ req' = [req EXCEPT ![r].pc = "consume", ![r].token = t]
    /\ UNCHANGED <<accountVars, codeVars, token, pin, accessHistory>>

(* Faulty: the update does not ask whether the token is revoked.           *)
ConsumeTokenBlind(r) ==
    /\ req[r].pc = "consume"
    /\ token' = [token EXCEPT ![req[r].token] = "revoked"]
    /\ req' = [req EXCEPT ![r].pc = "issue"]
    /\ UNCHANGED <<accountVars, codeVars, pin, allowance, accessHistory>>

ConsumeToken(r) ==
    /\ req[r].pc = "consume"
    /\ token' = [token EXCEPT ![req[r].token] = "revoked"]
    /\ IF token[req[r].token] = "live" /\ account # "gone"
       THEN req' = [req EXCEPT ![r].pc = "issue"]
       ELSE Leave(r)
    /\ UNCHANGED <<accountVars, codeVars, pin, allowance, accessHistory>>

-------------------------------------------------------------------------------
(* Authenticated requests *)

(* Faulty: the check looks for deleted accounts only.                      *)
AuthenticateUndeleted(r, activity, pc) ==
    /\ Begin(r, pc)
    /\ Allow(activity)
    /\ account \notin {"deleted", "gone"}
    /\ ~deletedAt
    /\ UNCHANGED <<accountVars, codeVars, token, pin, accessHistory>>

Authenticate(r, activity, pc) ==
    /\ Begin(r, pc)
    /\ Allow(activity)
    /\ Open
    /\ UNCHANGED <<accountVars, codeVars, token, pin, accessHistory>>

(* The tokens of one device, or all: devices name themselves.              *)
Logout(r) ==
    /\ req[r].pc = "logout"
    /\ \E some \in SUBSET Token :
          token' = [t \in Token |-> IF t \in some THEN Revoked[t] ELSE token[t]]
    /\ Leave(r)
    /\ UNCHANGED <<accountVars, codeVars, pin, allowance, accessHistory>>

SetPin(r) ==
    /\ req[r].pc = "set_pin"
    /\ pin' = IF account = "gone" THEN pin ELSE "hashed"
    /\ Leave(r)
    /\ UNCHANGED <<accountVars, codeVars, token, allowance, accessHistory>>

(* Settings store the new PIN as it is and compare the current one with    *)
(* the stored text: a hashed PIN is never equal to it.                     *)
ChangePin(r) ==
    /\ req[r].pc = "change_pin"
    /\ pin' = IF account = "gone" \/ pin = "hashed" THEN pin ELSE "plain"
    /\ Leave(r)
    /\ UNCHANGED <<accountVars, codeVars, token, allowance, accessHistory>>

(* The right digits are compared with the hash, so a plain PIN fails.      *)
VerifyPin(r) ==
    /\ pin = "hashed"
    /\ Authenticate(r, "pin", "issue")

DeactivateAccount(r) ==
    /\ req[r].pc = "deactivate"
    /\ account # "gone"
    /\ Close("suspended", r, "idle")
    /\ UNCHANGED <<deletedAt, codeVars, token, pin, allowance, cut, late, heirs>>

(* Writes "active" whatever the account has become since the check.        *)
ReactivateAccount(r) ==
    /\ req[r].pc = "reactivate"
    /\ account # "gone"
    /\ account' = "active"
    /\ closed' = (closed /\ ~req[r].early)
    /\ cut' = (cut /\ ~req[r].early)
    /\ Leave(r)
    /\ UNCHANGED <<deletedAt, codeVars, token, pin, allowance, late, heirs>>

DeleteAccount(r) ==
    /\ req[r].pc = "delete"
    /\ account # "gone"
    /\ Close("deleted", r, "revoke")
    /\ deletedAt' = TRUE
    /\ UNCHANGED <<codeVars, token, pin, allowance, cut, late, heirs>>

RevokeTokens(r) ==
    /\ req[r].pc = "revoke"
    /\ token' = Revoked
    /\ cut' = closed
    /\ Leave(r)
    /\ UNCHANGED <<accountVars, codeVars, pin, allowance, closed, late, heirs>>

(* The settings' deletion removes the row and everything that refers to it. *)
EraseAccount(r) ==
    /\ req[r].pc = "erase"
    /\ account # "gone"
    /\ Close("gone", r, "idle")
    /\ token' = Revoked
    /\ pin' = "none"
    /\ UNCHANGED <<deletedAt, codeVars, allowance, cut, late, heirs>>

-------------------------------------------------------------------------------
(* The admin backend *)

Ban(r) ==
    /\ req[r].pc = "idle"
    /\ account # "gone"
    /\ Allow("admin")
    /\ Close("suspended", r, "revoke")
    /\ UNCHANGED <<deletedAt, codeVars, token, pin, cut, late, heirs>>

(* An account that was deleted becomes active too; deletedAt stays.        *)
Unban(r) ==
    /\ req[r].pc = "idle"
    /\ account # "gone"
    /\ Allow("admin")
    /\ account' = "active"
    /\ closed' = FALSE
    /\ cut' = FALSE
    /\ UNCHANGED <<deletedAt, codeVars, token, pin, req, late, heirs>>

(* A request dies, or a statement throws: for want of a row it must.  An   *)
(* error while a ban's tokens are revoked is swallowed.                    *)
AccessFault(r) ==
    /\ req[r].pc # "idle"
    /\ IF account = "gone" THEN UNCHANGED allowance ELSE Allow("fault")
    /\ Leave(r)
    /\ UNCHANGED <<accountVars, codeVars, token, pin, accessHistory>>

AccessNext ==
    \/ \E o \in Code : CodeExpires(o)
    \/ \E r \in Request :
          \/ SendOtp(r) \/ StoreCode(r) \/ VerifyOtp(r) \/ WrongGuess(r) \/ RightGuess(r) \/ GenerateTokens(r)
          \/ RefreshToken(r) \/ ConsumeToken(r)
          \/ \E pc \in {"logout", "deactivate", "reactivate", "delete", "erase"} : Authenticate(r, "account", pc)
          \/ \E pc \in {"set_pin", "change_pin"} : Authenticate(r, "pin", pc)
          \/ Logout(r) \/ SetPin(r) \/ ChangePin(r) \/ VerifyPin(r)
          \/ DeactivateAccount(r) \/ ReactivateAccount(r) \/ DeleteAccount(r) \/ RevokeTokens(r) \/ EraseAccount(r)
          \/ Ban(r) \/ Unban(r) \/ AccessFault(r)

AccessSpec == AccessInit /\ [][AccessNext]_accessVars

-------------------------------------------------------------------------------
(* Properties *)

(* A closed account (banned, deactivated, deleted) is opened by an unban,  *)
(* or by a reactivation that had been let in before it was closed, and by  *)
(* nothing else: the check at the beginning of a request and its write are *)
(* separate statements (jwt.strategy.ts, account.service.ts).              *)
ClosedHolds == closed => account # "active"

(* While the account is closed and every revocation has been carried out,  *)
(* the live refresh tokens are those of sign-ins with a code, which are    *)
(* let in whatever the account, and those of requests that were under way  *)
(* when it was closed: the status keeps a refresh from beginning between   *)
(* a ban and its revocation.  A deactivation revokes nothing               *)
(* (updateBanStatus, deleteAccount, refreshToken).                         *)
TokensOfClosedAccount ==
    cut => \A t \in Token : token[t] = "live" => t \in late

(* A refresh token is exchanged once, however many requests present it at  *)
(* the same time (refreshToken).                                           *)
TokenExchangedOnce == \A t \in Token : heirs[t] <= 1

(* Wrong guesses at one code exceed the maximum by at most the requests    *)
(* that read the count together (verifyOtp).                               *)
GuessesBounded == \A o \in Code : attempts[o] <= MaxAttempts + Cardinality(Request) - 1
=============================================================================
