------------------------------ MODULE Accounts ------------------------------
(***************************************************************************)
(* The account behind one email address: registration, verification of the *)
(* address, sessions, and new passwords (AuthService).  Links are mailed,  *)
(* each with a token: one kind verifies the address, the other resets the  *)
(* password.  To send a link is three steps that can each fail (the tokens *)
(* before are invalidated, the new one is stored, the mail goes out); to   *)
(* use one is a transaction that looks the token up and then marks it.     *)
(*                                                                         *)
(* Requests that the code turns down change nothing and are left out, and  *)
(* so are hashing, signing and the format of tokens.  A clock is needed    *)
(* only for the time between two mails.                                    *)
(***************************************************************************)
EXTENDS Integers, FiniteSets

CONSTANTS
  VerifyTokens,  \* rows of email_verification_tokens and of password_reset_tokens, numbered in
  ResetTokens,   \* the order in which they are stored
  Requests,      \* requests that are served at the same time
  Passwords,     \* passwords that validatePassword accepts
  MaxLinks,      \* bound: tokens that are stored
  MaxFaults,     \* bound: statements and mails that fail
  NoPassword,
  NoToken

\* Tokens of the two kinds are rows of two tables.
AccountsAssumption ==
  /\ VerifyTokens \cup ResetTokens \subseteq Nat /\ VerifyTokens \cap ResetTokens = {}
  /\ NoToken \notin VerifyTokens \cup ResetTokens
  /\ MaxLinks \in Nat /\ MaxFaults \in Nat

VARIABLES
  user,        \* users: "none", "unverified" or "verified"
  password,    \* its password
  link,        \* each token: "none", "active", "invalidated" or "used"
  fresh,       \* those that are younger than the cooldown
  mailbox,     \* those whose mail has arrived
  session,     \* whether the user has been given a session
  rpc,         \* where each request is
  job,         \* the tokens it is about: of one kind or the other
  held,        \* the token it looks at, or has stored
  chosen,      \* the new password it brings
  crossed,     \* history: tokens stored while another send was about to store its own
  burned,      \* history: reset tokens whose request failed before the password was written
  written,     \* history: reset tokens whose request has written the password
  faults

userVars == <<user, password, session>>
links == <<link, fresh, mailbox, crossed, burned, written>>
request == <<rpc, job, held, chosen>>
accountVars == <<userVars, links, request, faults>>

Tokens == VerifyTokens \cup ResetTokens

Init ==
  /\ user = "none"
  /\ password = NoPassword
  /\ link = [t \in Tokens |-> "none"]
  /\ fresh = {}
  /\ mailbox = {}
  /\ session = FALSE
  /\ rpc = [r \in Requests |-> "idle"]
  /\ job = [r \in Requests |-> {}]
  /\ held = [r \in Requests |-> NoToken]
  /\ chosen = [r \in Requests |-> NoPassword]
  /\ crossed = {}
  /\ burned = {}
  /\ written = {}
  /\ faults = 0

---------------------------------------------------------------------------

Goto(r, label) == rpc' = [rpc EXCEPT ![r] = label]

\* The request answers.
Answer(r) ==
  /\ Goto(r, "idle")
  /\ job' = [job EXCEPT ![r] = {}]
  /\ held' = [held EXCEPT ![r] = NoToken]
  /\ chosen' = [chosen EXCEPT ![r] = NoPassword]

\* A request that is to send a link of kind K.
WillSend(r, K, label) ==
  /\ Goto(r, label)
  /\ job' = [job EXCEPT ![r] = K]
  /\ UNCHANGED <<held, chosen>>

Active(K) == {t \in K : link[t] = "active"}

\* The time between two mails of a kind goes by.
Cool(t) ==
  /\ t \in fresh
  /\ fresh' = fresh \ {t}
  /\ UNCHANGED <<userVars, link, mailbox, crossed, burned, written, request, faults>>

---------------------------------------------------------------------------
\* Sending a link: sendVerificationEmail and sendPasswordResetEmail.

\* Mutant: a token that has cooled down stays.
InvalidateFresh(r) ==
  /\ rpc[r] = "invalidate"
  /\ link' = [t \in Tokens |-> IF t \in Active(job[r]) \cap fresh THEN "invalidated" ELSE link[t]]
  /\ Goto(r, "store")
  /\ UNCHANGED <<userVars, fresh, mailbox, crossed, burned, written, job, held, chosen, faults>>

Invalidate(r) ==
  /\ rpc[r] = "invalidate"
  /\ link' = [t \in Tokens |-> IF t \in Active(job[r]) THEN "invalidated" ELSE link[t]]
  /\ Goto(r, "store")
  /\ UNCHANGED <<userVars, fresh, mailbox, crossed, burned, written, job, held, chosen, faults>>

\* The next token: no other is the same.
IsNext(t, kind) ==
  /\ link[t] = "none" /\ \A s \in kind : s < t => link[s] # "none"
  /\ Cardinality({s \in Tokens : link[s] # "none"}) < MaxLinks

\* Another request that has invalidated what it saw will store a token beside this one.
StoreToken(r, t) ==
  /\ rpc[r] = "store"
  /\ t \in job[r] /\ IsNext(t, job[r])
  /\ link' = [link EXCEPT ![t] = "active"]
  /\ fresh' = fresh \cup {t}
  /\ crossed' = IF \E s \in Requests \ {r} : rpc[s] = "store" /\ job[s] = job[r]
                  THEN crossed \cup {t} ELSE crossed
  /\ held' = [held EXCEPT ![r] = t]
  /\ Goto(r, "mail")
  /\ UNCHANGED <<userVars, mailbox, burned, written, job, chosen, faults>>

\* That the mail arrives does not mean that the request learns of it.
SendMail(r) ==
  /\ rpc[r] = "mail"
  /\ mailbox' = mailbox \cup {held[r]}
  /\ Answer(r)
  /\ UNCHANGED <<userVars, link, fresh, crossed, burned, written, faults>>

---------------------------------------------------------------------------
\* Registration and verification.

\* A second request for the address fails on the unique email.
CreateUser(r, p) ==
  /\ rpc[r] = "idle"
  /\ user = "none"
  /\ user' = "unverified"
  /\ password' = p
  /\ WillSend(r, VerifyTokens, "invalidate")
  /\ UNCHANGED <<session, links, faults>>

ResendVerification(r) ==
  /\ rpc[r] = "idle"
  /\ user = "unverified"
  /\ WillSend(r, VerifyTokens, "cooldown")
  /\ UNCHANGED <<userVars, links, faults>>

RequestPasswordReset(r) ==
  /\ rpc[r] = "idle"
  /\ user # "none"
  /\ WillSend(r, ResetTokens, "cooldown")
  /\ UNCHANGED <<userVars, links, faults>>

\* The newest token that is active is old enough, or there is none.
PassCooldown(r) ==
  /\ rpc[r] = "cooldown"
  /\ IF Active(job[r]) \cap fresh = {}
       THEN Goto(r, "invalidate") /\ UNCHANGED <<job, held, chosen>>
       ELSE Answer(r)
  /\ UNCHANGED <<userVars, links, faults>>

\* Both kinds of links begin with a look at the token, which locks nothing, and the token is
\* then marked by its id, whatever consumed_at says by now: two requests that look at the
\* same time both use the link.
OpenLink(r, t, p) ==
  /\ rpc[r] = "idle"
  /\ t \in mailbox /\ link[t] = "active"
  /\ Goto(r, IF t \in VerifyTokens THEN "verify" ELSE "reset")
  /\ held' = [held EXCEPT ![r] = t]
  /\ chosen' = [chosen EXCEPT ![r] = IF t \in ResetTokens THEN p ELSE NoPassword]
  /\ UNCHANGED <<userVars, links, job, faults>>

\* Token and user are written in one transaction.
ConsumeVerificationToken(r) ==
  /\ rpc[r] = "verify"
  /\ link' = [link EXCEPT ![held[r]] = "used"]
  /\ user' = "verified"
  /\ session' = TRUE
  /\ Answer(r)
  /\ UNCHANGED <<password, fresh, mailbox, crossed, burned, written, faults>>

Login(p) ==
  /\ user = "verified" /\ password = p
  /\ session' = TRUE
  /\ UNCHANGED <<user, password, links, request, faults>>

---------------------------------------------------------------------------
\* New passwords.

ConsumePasswordResetToken(r) ==
  /\ rpc[r] = "reset"
  /\ link' = [link EXCEPT ![held[r]] = "used"]
  /\ Goto(r, "password")
  /\ UNCHANGED <<userVars, fresh, mailbox, crossed, burned, written, job, held, chosen, faults>>

\* The session of a reset does not ask whether the address is verified.
WriteResetPassword(r) ==
  /\ rpc[r] = "password"
  /\ password' = chosen[r]
  /\ session' = TRUE
  /\ written' = written \cup {held[r]}
  /\ Answer(r)
  /\ UNCHANGED <<user, link, fresh, mailbox, crossed, burned, faults>>

\* The user has been read: the current password is right, the new one another.
CheckPasswords(r, p) ==
  /\ rpc[r] = "idle"
  /\ session /\ p # password
  /\ Goto(r, "change")
  /\ chosen' = [chosen EXCEPT ![r] = p]
  /\ UNCHANGED <<userVars, links, job, held, faults>>

UpdatePasswordHash(r) ==
  /\ rpc[r] = "change"
  /\ password' = chosen[r]
  /\ Goto(r, "drop")
  /\ UNCHANGED <<user, session, links, job, held, chosen, faults>>

\* The links to reset it are of no use any more.
DropResetLinks(r) ==
  /\ rpc[r] = "drop"
  /\ link' = [t \in Tokens |-> IF t \in Active(ResetTokens) THEN "invalidated" ELSE link[t]]
  /\ Answer(r)
  /\ UNCHANGED <<userVars, fresh, mailbox, crossed, burned, written, faults>>

\* A statement or the mail fails.  What has been committed stays: a user without a link,
\* links that are invalidated with no new one, a token that is used for nothing.
Fail(r) ==
  /\ rpc[r] # "idle"
  /\ faults < MaxFaults
  /\ faults' = faults + 1
  /\ burned' = IF rpc[r] = "password" THEN burned \cup {held[r]} ELSE burned
  /\ Answer(r)
  /\ UNCHANGED <<userVars, link, fresh, mailbox, crossed, written>>

---------------------------------------------------------------------------

\* sendVerificationEmail and sendPasswordResetEmail.
SendLink(r) == Invalidate(r) \/ SendMail(r) \/ \E t \in Tokens : StoreToken(r, t)

Register(r) == \E p \in Passwords : CreateUser(r, p)

VerifyEmail(r) == ConsumeVerificationToken(r)

ResetPassword(r) == ConsumePasswordResetToken(r) \/ WriteResetPassword(r)

ChangePassword(r) ==
  UpdatePasswordHash(r) \/ DropResetLinks(r) \/ \E p \in Passwords : CheckPasswords(r, p)

\* AuthHandler.
HandleAccounts(r) ==
  \/ Register(r) \/ VerifyEmail(r) \/ ResetPassword(r) \/ ChangePassword(r)
  \/ ResendVerification(r) \/ RequestPasswordReset(r) \/ PassCooldown(r) \/ SendLink(r)
  \/ Fail(r)
  \/ \E t \in Tokens, p \in Passwords : OpenLink(r, t, p)

Next ==
  \/ \E t \in Tokens : Cool(t)
  \/ \E p \in Passwords : Login(p)
  \/ \E r \in Requests : HandleAccounts(r)

Spec == Init /\ [][Next]_accountVars

---------------------------------------------------------------------------

Stages == {"idle", "cooldown", "invalidate", "store", "mail", "verify", "reset", "password",
           "change", "drop"}

\* The tables and the requests hold what the code can put there.
TypeOK ==
  /\ user \in {"none", "unverified", "verified"}
  /\ password \in Passwords \cup {NoPassword}
  /\ link \in [Tokens -> {"none", "active", "invalidated", "used"}]
  /\ fresh \subseteq Tokens /\ mailbox \subseteq Tokens
  /\ crossed \subseteq Tokens /\ burned \subseteq ResetTokens
  /\ written \subseteq ResetTokens
  /\ session \in BOOLEAN
  /\ rpc \in [Requests -> Stages]
  /\ job \in [Requests -> {{}, VerifyTokens, ResetTokens}]
  /\ held \in [Requests -> Tokens \cup {NoToken}]
  /\ chosen \in [Requests -> Passwords \cup {NoPassword}]
  /\ faults \in 0 .. MaxFaults

\* At most one link of a kind works, unless two were being sent at the same time: a newer
\* one takes the place of what was mailed before, whatever has failed.
OneLinkWorks ==
  \A K \in {VerifyTokens, ResetTokens} : Cardinality(Active(K) \ crossed) <= 1

\* What a link promises happens, though the token is marked first: the address is verified
\* with it, and the password is written unless that statement fails.
UsedLinksCount ==
  \A t \in Tokens : link[t] = "used" =>
    IF t \in VerifyTokens THEN user = "verified"
    ELSE \/ t \in burned \cup written
         \/ \E r \in Requests : rpc[r] = "password" /\ held[r] = t

LinksAreSound == OneLinkWorks /\ UsedLinksCount

===========================================================================
