-------------------------------- MODULE Setup --------------------------------
(***************************************************************************)
(* The first-run wizard (backend/apps/setup): its one-time tokens, the row *)
(* that holds its progress, the connection of Telegram, and the env file.  *)
(*                                                                         *)
(* The backend runs in several workers and the page may be open in several *)
(* tabs: requests overlap, and a call to Telegram may take 15 s.  Each     *)
(* statement on the database and each step on the file is a step here, a   *)
(* transaction that locks the rows it reads is one.                        *)
(***************************************************************************)
EXTENDS Integers, Sequences, FiniteSets

CONSTANTS
    Bots, Chats, Users,  \* of Telegram: bot tokens, groups and senders
    None,
    TokenTTL,            \* life of a setup token, in ticks
    MaxRequests,         \* bound: requests and commands
    Limits               \* bounds of one behaviour, and where it starts

Requests == 1 .. MaxRequests
NoToken  == 0
NoCode   == 0

Kinds  == {"page", "advance", "complete", "token", "discover", "command"}
Stages == {"providers", "runtimes", "done"}

Transitions == [providers |-> {"runtimes"}, runtimes |-> {"providers", "done"},
                done |-> {}]

SetupRow == [stage : Stages, connected : BOOLEAN, completed : BOOLEAN, challenge : Nat]
EnvFile  == [bot : Bots \cup {None}, chat : Chats \cup {None}, user : Users \cup {None}]
Limit    == [setup : SetupRow, env : EnvFile, max : [Kinds -> Nat],
             posts : Nat, faults : Nat, ticks : Nat]

ASSUME SetupAssumption ==
    /\ None \notin Bots \cup Chats \cup Users
    /\ TokenTTL \in Nat \ {0} /\ MaxRequests \in Nat /\ Limits \subseteq Limit

VARIABLES
    tokens,    \* SetupToken rows in order of creation
    setup,     \* the SetupState row; connected: providers["telegram"]
    codes,     \* history: challenge codes made
    env,       \* deploy/.env: the bot's token, the chat, who is allowed
    lock,      \* who holds the flock, 0 for nobody
    urls,      \* tokens printed by the command
    cookie,    \* the browser's token
    posted,    \* messages with a code in groups of a bot
    now, limit, faults,
    written,   \* history: each key of the file as it was last written
    spent,     \* history: requests that completed the setup
    arrived,   \* requests so far
    pc, kind, arg,
    tok,       \* the token a request carries
    row,       \* the copy of the SetupState row it works on
    found,     \* the message that discover_chat returned
    file,      \* the content it read under the lock
    seen,      \* the outstanding tokens its transaction revokes
    fresh      \* the token it made

dbVars      == <<tokens, setup, codes>>
envVars     == <<env, lock, written>>
outsideVars == <<urls, cookie, posted, now, limit>>
localVars   == <<kind, arg, tok, row, found, file, seen, fresh>>
vars == <<dbVars, envVars, outsideVars, faults, spent, arrived, pc, localVars>>

Message   == [bot : Bots, code : Nat, chat : Chats, user : Users \cup {None}]
NoMessage == [bot |-> None, code |-> NoCode, chat |-> None, user |-> None]

PCs == {"none", "gate", "verify", "load", "save", "commit", "getMe", "read",
        "getUpdates", "lock", "replace", "issue", "clear", "connect", "reopen",
        "revoke", "mint", "answer", "done"}

(* Beyond the types: "the map keeps stage and completed_at a single         *)
(* invariant" (models.py), though requests write both from stale copies.    *)
TypeOK ==
    /\ tokens \in Seq([expires : Nat, consumed : BOOLEAN])
    /\ setup \in SetupRow /\ codes \in Nat
    /\ setup.completed <=> setup.stage = "done"
    /\ env \in EnvFile /\ written \in EnvFile /\ lock \in {0} \cup Requests
    /\ urls \subseteq DOMAIN tokens /\ cookie \in {NoToken} \cup DOMAIN tokens
    /\ posted \in Seq(Message)
    /\ limit \in Limits /\ now \in 0 .. limit.ticks /\ faults \in 0 .. limit.faults
    /\ spent \subseteq Requests /\ arrived \in 0 .. MaxRequests
    /\ pc \in [Requests -> PCs] /\ \A r \in Requests : pc[r] = "none" <=> r > arrived
    /\ kind \in [Requests -> Kinds]
    /\ arg \in [Requests -> Stages \cup Bots \cup {None, "reopen"}]
    /\ tok \in [Requests -> {NoToken} \cup DOMAIN tokens]
    /\ fresh \in [Requests -> {NoToken} \cup DOMAIN tokens]
    /\ row \in [Requests -> SetupRow] /\ found \in [Requests -> Message \cup {NoMessage}]
    /\ file \in [Requests -> EnvFile] /\ seen \in [Requests -> SUBSET DOMAIN tokens]

(* One token is outstanding: the command printed it, or the browser has it. *)
Init ==
    /\ limit \in Limits
    /\ setup = limit.setup /\ env = limit.env /\ written = limit.env
    /\ codes = setup.challenge
    /\ tokens = <<[expires |-> TokenTTL, consumed |-> setup.completed]>>
    /\ \/ urls = {1} /\ cookie = NoToken
       \/ urls = {} /\ cookie = 1
    /\ lock = 0 /\ posted = <<>> /\ now = 0 /\ faults = 0 /\ spent = {} /\ arrived = 0
    /\ pc = [r \in Requests |-> "none"] /\ kind = [r \in Requests |-> "page"]
    /\ arg = [r \in Requests |-> None]
    /\ tok = [r \in Requests |-> NoToken] /\ fresh = [r \in Requests |-> NoToken]
    /\ row = [r \in Requests |-> setup] /\ file = [r \in Requests |-> env]
    /\ found = [r \in Requests |-> NoMessage] /\ seen = [r \in Requests |-> {}]

At(r, place) == pc[r] = place
Goes(r, place) == pc' = [pc EXCEPT ![r] = place]
Fails == faults < limit.faults /\ faults' = faults + 1
Live(t) == t \in DOMAIN tokens /\ ~tokens[t].consumed /\ now < tokens[t].expires

-----------------------------------------------------------------------------
(* The operator, the browser and Telegram. *)

Arrives(k, a, t, place) ==
    /\ arrived < MaxRequests
    /\ Cardinality({r \in 1 .. arrived : kind[r] = k}) < limit.max[k]
    /\ arrived' = arrived + 1
    /\ kind' = [kind EXCEPT ![arrived + 1] = k]
    /\ arg' = [arg EXCEPT ![arrived + 1] = a]
    /\ tok' = [tok EXCEPT ![arrived + 1] = t]
    /\ Goes(arrived + 1, place)
    /\ UNCHANGED <<dbVars, envVars, outsideVars, faults, spent, row, found, file,
                   seen, fresh>>

Browses ==
    \/ \E t \in urls : Arrives("page", None, t, "gate")
    \/ \E stage \in Stages \ {"done"} : Arrives("advance", stage, cookie, "gate")
    \/ \E k \in {"complete", "discover"} : Arrives(k, None, cookie, "gate")
    \/ \E b \in Bots : Arrives("token", b, cookie, "gate")
    \/ \E a \in {None, "reopen"} : Arrives("command", a, NoToken, "load")

(* A channel post has no sender. *)
OperatorPosts ==
    /\ Len(posted) < limit.posts
    /\ \E code \in 1 .. codes, b \in Bots, c \in Chats, u \in Users \cup {None} :
           posted' = Append(posted, [bot |-> b, code |-> code, chat |-> c, user |-> u])
    /\ UNCHANGED <<dbVars, envVars, urls, cookie, now, limit, faults, spent, arrived,
                   pc, localVars>>

TimePasses ==
    /\ now < limit.ticks
    /\ now' = now + 1
    /\ UNCHANGED <<dbVars, envVars, urls, cookie, posted, limit, faults, spent, arrived,
                   pc, localVars>>

-----------------------------------------------------------------------------
(* The gate of every route, and of the page. *)

Gates(r) ==
    /\ At(r, "gate")
    /\ Goes(r, IF setup.completed THEN "done" ELSE "verify")
    /\ UNCHANGED <<dbVars, envVars, outsideVars, faults, spent, arrived, localVars>>

Admitted == [page |-> "revoke", complete |-> "commit", advance |-> "load",
             token |-> "load", discover |-> "load", command |-> "load"]

Verifies(r) ==
    /\ At(r, "verify")
    /\ Goes(r, IF Live(tok[r]) THEN Admitted[kind[r]] ELSE "done")
    /\ UNCHANGED <<dbVars, envVars, outsideVars, faults, spent, arrived, localVars>>

-----------------------------------------------------------------------------
(* SetupToken.issue, for the page and the command.  Under READ COMMITTED the *)
(* update sees the rows of its start: a token made meanwhile is left alone.  *)

(* Mutant: the newest alone is revoked. *)
OutstandingNewest ==
    LET unused == {t \in DOMAIN tokens : ~tokens[t].consumed}
    IN  {t \in unused : \A u \in unused : u <= t}

Outstanding == {t \in DOMAIN tokens : ~tokens[t].consumed}

Revokes(r) ==
    /\ At(r, "revoke")
    /\ seen' = [seen EXCEPT ![r] = Outstanding]
    /\ Goes(r, "mint")
    /\ UNCHANGED <<dbVars, envVars, outsideVars, faults, spent, arrived, kind, arg, tok,
                   row, found, file, fresh>>

(* The commit.  The command prints the token; the page answers with it.     *)
Mints(r) ==
    /\ At(r, "mint")
    /\ tokens' = Append([t \in DOMAIN tokens |->
                            [tokens[t] EXCEPT !.consumed = @ \/ t \in seen[r]]],
                        [expires |-> now + TokenTTL, consumed |-> FALSE])
    /\ fresh' = [fresh EXCEPT ![r] = Len(tokens) + 1]
    /\ \/ kind[r] = "page" /\ Goes(r, "answer") /\ UNCHANGED urls
       \/ kind[r] = "command" /\ Goes(r, "done") /\ urls' = urls \cup {Len(tokens) + 1}
    /\ UNCHANGED <<setup, codes, envVars, cookie, posted, now, limit, faults, spent, arrived,
                   kind, arg, tok, row, found, file, seen>>

(* The response sets the cookie when it reaches the browser. *)
Answers(r) ==
    /\ At(r, "answer")
    /\ cookie' = fresh[r]
    /\ Goes(r, "done")
    /\ UNCHANGED <<dbVars, envVars, urls, posted, now, limit, faults, spent, arrived, localVars>>

-----------------------------------------------------------------------------
(* The stages. *)

Permitted(s, stage) ==
    /\ stage \in Transitions[s.stage]
    /\ stage \in {"runtimes", "done"} => s.connected

(* SetupState.load, and what the caller decides on the copy at once. *)
AfterLoad(r) ==
    CASE kind[r] = "advance" -> IF Permitted(setup, arg[r]) THEN "save" ELSE "done"
      [] kind[r] = "token"    -> IF setup.stage = "providers" THEN "getMe" ELSE "done"
      [] kind[r] = "discover" -> IF setup.stage = "providers" THEN "read" ELSE "done"
      [] kind[r] = "command"  -> IF ~setup.completed THEN "revoke"
                                 ELSE IF arg[r] = "reopen" THEN "reopen" ELSE "done"

Loads(r) ==
    /\ At(r, "load")
    /\ row' = [row EXCEPT ![r] = setup]
    /\ Goes(r, AfterLoad(r))
    /\ UNCHANGED <<dbVars, envVars, outsideVars, faults, spent, arrived, kind, arg, tok,
                   found, file, seen, fresh>>

(* advance_to saves the stage, and completed_at as it is in the copy.       *)
Saved(copy, stage) == [setup EXCEPT !.stage = stage, !.completed = copy.completed]

Saves(r) ==
    /\ At(r, "save")
    /\ setup' = Saved(row[r], arg[r])
    /\ Goes(r, "done")
    /\ UNCHANGED <<tokens, codes, envVars, outsideVars, faults, spent, arrived, localVars>>

(* Mutant: the token that the gate verified is not looked at again. *)
SpendableOnce(t) == t \in DOMAIN tokens

Spendable(t) == Live(t)

(* CompleteView: one transaction that holds both rows. *)
Commits(r) ==
    /\ At(r, "commit")
    /\ Goes(r, "done")
    /\ \/ /\ Spendable(tok[r]) /\ ~setup.completed /\ Permitted(setup, "done")
          /\ setup' = [setup EXCEPT !.stage = "done", !.completed = TRUE]
          /\ tokens' = [tokens EXCEPT ![tok[r]].consumed = TRUE]
          /\ spent' = spent \cup {r}
       \/ /\ ~(Spendable(tok[r]) /\ ~setup.completed /\ Permitted(setup, "done"))
          /\ UNCHANGED <<setup, tokens, spent>>
    /\ UNCHANGED <<codes, envVars, outsideVars, faults, arrived, localVars>>

Reopens(r) ==
    /\ At(r, "reopen")
    /\ setup' = [stage |-> "providers", connected |-> FALSE, completed |-> FALSE,
                 challenge |-> NoCode]
    /\ Goes(r, "revoke")
    /\ UNCHANGED <<tokens, codes, envVars, outsideVars, faults, spent, arrived, localVars>>

-----------------------------------------------------------------------------
(* Telegram: the token of the bot, then the group that posts the code. *)

GetsMe(r) ==
    /\ At(r, "getMe")
    /\ Goes(r, "lock") \/ Goes(r, "done")
    /\ UNCHANGED <<dbVars, envVars, outsideVars, faults, spent, arrived, localVars>>

(* read_env takes no lock: the file is replaced at once. *)
ReadsEnv(r) ==
    /\ At(r, "read")
    /\ arg' = [arg EXCEPT ![r] = env.bot]
    /\ Goes(r, IF env.bot = None \/ row[r].challenge = NoCode THEN "done"
               ELSE "getUpdates")
    /\ UNCHANGED <<dbVars, envVars, outsideVars, faults, spent, arrived, kind, tok, row,
                   found, file, seen, fresh>>

(* discover_chat: the first message of this bot with the code and a sender. *)
Matches(r) ==
    {i \in DOMAIN posted : /\ posted[i].bot = arg[r] /\ posted[i].user # None
                           /\ posted[i].code = row[r].challenge}

GetsUpdates(r) ==
    /\ At(r, "getUpdates")
    /\ \/ \E i \in Matches(r) :
              /\ \A j \in Matches(r) : i <= j
              /\ found' = [found EXCEPT ![r] = posted[i]]
              /\ Goes(r, "lock")
       \/ Goes(r, "done") /\ UNCHANGED found
    /\ UNCHANGED <<dbVars, envVars, outsideVars, faults, spent, arrived, kind, arg, tok, row,
                   file, seen, fresh>>

(* issue_telegram_challenge, clear_telegram_challenge, set_provider: each    *)
(* saves the one field.                                                      *)
IssuesCode(r) ==
    /\ At(r, "issue")
    /\ codes' = codes + 1
    /\ setup' = [setup EXCEPT !.challenge = codes + 1]
    /\ Goes(r, "done")
    /\ UNCHANGED <<tokens, envVars, outsideVars, faults, spent, arrived, localVars>>

ClearsCode(r) ==
    /\ At(r, "clear")
    /\ setup' = [setup EXCEPT !.challenge = NoCode]
    /\ Goes(r, "connect")
    /\ UNCHANGED <<tokens, codes, envVars, outsideVars, faults, spent, arrived, localVars>>

Connects(r) ==
    /\ At(r, "connect")
    /\ setup' = [setup EXCEPT !.connected = TRUE]
    /\ Goes(r, "done")
    /\ UNCHANGED <<tokens, codes, envVars, outsideVars, faults, spent, arrived, localVars>>

-----------------------------------------------------------------------------
(* update_env. *)

(* Mutant: no lock. *)
FreeAlways == TRUE

Free == lock = 0

(* Mutant: the lock is a file that its maker removes. *)
ReleasedNot(r) == lock

(* A flock goes with its process, and with an exception. *)
Released(r) == IF lock = r THEN 0 ELSE lock

Locks(r) ==
    /\ At(r, "lock") /\ Free
    /\ lock' = r
    /\ file' = [file EXCEPT ![r] = env]
    /\ Goes(r, "replace")
    /\ UNCHANGED <<dbVars, env, written, outsideVars, faults, spent, arrived, kind, arg, tok,
                   row, found, seen, fresh>>

(* The keys a request writes; the other lines of the file stay. *)
Updated(r, content) ==
    IF kind[r] = "token" THEN [bot |-> arg[r], chat |-> content.chat, user |-> content.user]
    ELSE [bot |-> content.bot, chat |-> found[r].chat, user |-> found[r].user]

AfterWrite(r) == IF kind[r] = "token" THEN "issue" ELSE "clear"

Replaces(r) ==
    /\ At(r, "replace")
    /\ env' = Updated(r, file[r])
    /\ written' = Updated(r, written)
    /\ lock' = 0
    /\ Goes(r, AfterWrite(r))
    /\ UNCHANGED <<dbVars, outsideVars, faults, spent, arrived, localVars>>

(* Mutant: the error is logged, and the request goes on. *)
GoesOn(r) == AfterWrite(r)

GivesUp(r) == "done"

(* The write raises, and the request ends: the file is as it was, or was     *)
(* replaced already when its directory could not be synced.                  *)
WriteFails(r) ==
    /\ At(r, "replace") /\ Fails
    /\ \/ UNCHANGED <<env, written>>
       \/ env' = Updated(r, file[r]) /\ written' = Updated(r, written)
    /\ lock' = Released(r)
    /\ Goes(r, GivesUp(r))
    /\ UNCHANGED <<dbVars, outsideVars, spent, arrived, localVars>>

(* The worker of a request ends. *)
Ends(r) ==
    /\ pc[r] \notin {"none", "done"} /\ Fails
    /\ lock' = Released(r)
    /\ Goes(r, "done")
    /\ UNCHANGED <<dbVars, env, written, outsideVars, spent, arrived, localVars>>

-----------------------------------------------------------------------------
Works(r) ==
    \/ Gates(r) \/ Verifies(r) \/ Revokes(r) \/ Mints(r) \/ Answers(r)
    \/ Loads(r) \/ Saves(r) \/ Commits(r) \/ Reopens(r)
    \/ GetsMe(r) \/ ReadsEnv(r) \/ GetsUpdates(r)
    \/ Locks(r) \/ Replaces(r) \/ WriteFails(r)
    \/ IssuesCode(r) \/ ClearsCode(r) \/ Connects(r)

Next ==
    \/ Browses \/ OperatorPosts \/ TimePasses
    \/ \E r \in Requests : Works(r) \/ Ends(r)

Spec == Init /\ [][Next]_vars

(* A worker goes on with its requests; calls to Telegram have a timeout. *)
FairSpec == Spec /\ \A r \in Requests : WF_vars(Works(r))

-----------------------------------------------------------------------------
(* update_env: overlapping writers lose nothing of each other, whichever     *)
(* fails or is cut short, before the file is replaced or after.              *)
EnvKeepsEveryWrite == env = written

(* A provider is said to be connected only when the file has its bot, its    *)
(* chat and its allowlist, whatever failed on the way: the wizard may be     *)
(* completed on that word.                                                   *)
ConnectedIsConfigured ==
    setup.connected => env.bot # None /\ env.chat # None /\ env.user # None

(* CompleteView: of the requests that the gate admitted with one token, one  *)
(* completes the setup, even if the row is open again, and the token is dead.*)
TokenSpentOnce ==
    \A r \in spent : /\ tokens[tok[r]].consumed
                     /\ \A s \in spent \ {r} : tok[s] # tok[r]

(* page.py: a token that was in the address bar is dead once it has been     *)
(* traded, whichever other loads and commands ran meanwhile.                 *)
UrlDiesOnUse ==
    \A r \in Requests :
        kind[r] = "page" /\ fresh[r] # NoToken => tokens[tok[r]].consumed

(* Every request is answered or ends with its worker: none waits for ever    *)
(* for the lock of a writer that failed or ended.                            *)
RequestsEnd == \A r \in Requests : pc[r] # "none" ~> pc[r] = "done"

(* _stage_guard is there so that a session "must not be able to rewrite the  *)
(* allowlist" "once the wizard has moved past the providers stage"           *)
(* (views.py:83-86).  It is asked before the call to Telegram, and what a    *)
(* request writes after that call comes whatever the stage is by then.       *)
NoLateWrite == \A r \in Requests : At(r, "replace") => setup.stage = "providers"
==============================================================================
