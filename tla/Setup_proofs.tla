---------------------------- MODULE Setup_proofs -----------------------------
(***************************************************************************)
(* The env file and the one-time tokens of the wizard, for any number of   *)
(* requests, bots, chats, tokens and failures.                             *)
(***************************************************************************)
EXTENDS Setup, SequenceTheorems, TLAPS

(* The kinds of request that load the SetupState row. *)
Loaders == {"advance", "token", "discover", "command"}

(* A request that has not arrived has done nothing. *)
Arrivals ==
    /\ MaxRequests \in Nat /\ arrived \in 0 .. MaxRequests
    /\ pc = [r \in Requests |-> pc[r]] /\ kind \in [Requests -> Kinds]
    /\ \A r \in Requests : /\ r > arrived => pc[r] = "none"
                           /\ pc[r] \in {"load", "reopen"} => kind[r] \in Loaders

(* The lock is held by the one request that is about to replace the file,   *)
(* and what it read is still the content.                                   *)
Exclusive ==
    /\ file = [r \in Requests |-> file[r]]
    /\ \A r \in Requests : pc[r] = "replace" => lock = r /\ file[r] = env

FileInv == Arrivals /\ Exclusive /\ EnvKeepsEveryWrite

LEMMA FileInit == Init => FileInv
BY SetupAssumption DEF Init, FileInv, Arrivals, Exclusive, EnvKeepsEveryWrite, Requests,
                       Kinds

(* A request that moves on and is not one that locks keeps the rest. *)
LEMMA FileStep ==
    ASSUME FileInv, NEW r \in Requests, NEW place,
           pc[r] # "none", place # "replace",
           place \in {"load", "reopen"} => kind[r] \in Loaders,
           Goes(r, place), UNCHANGED <<envVars, arrived, file, kind>>
    PROVE  FileInv'
BY DEF FileInv, Arrivals, Exclusive, EnvKeepsEveryWrite, Goes, envVars, Requests

LEMMA FileNext == FileInv /\ [Next]_vars => FileInv'
<1> SUFFICES ASSUME FileInv, [Next]_vars PROVE FileInv'
  OBVIOUS
<1> USE DEF At
<1>1. CASE UNCHANGED vars
  BY <1>1 DEF vars, dbVars, envVars, outsideVars, localVars, FileInv, Arrivals,
              Exclusive, EnvKeepsEveryWrite
<1>2. CASE Browses
  <2>1. ASSUME NEW k \in Kinds, NEW a, NEW t, NEW place, Arrives(k, a, t, place),
               place = "gate" \/ (place = "load" /\ k \in Loaders)
        PROVE  FileInv'
    <3>1. /\ arrived + 1 \in Requests /\ arrived' = arrived + 1
          /\ pc' = [pc EXCEPT ![arrived + 1] = place]
          /\ kind' = [kind EXCEPT ![arrived + 1] = k]
          /\ UNCHANGED <<env, lock, written, file>>
      BY <2>1 DEF Arrives, Goes, envVars, FileInv, Arrivals, Requests
    <3>2. Exclusive' /\ EnvKeepsEveryWrite'
      BY <2>1, <3>1 DEF FileInv, Arrivals, Exclusive, EnvKeepsEveryWrite, Requests
    <3>3. kind' \in [Requests -> Kinds] /\ pc' = [r \in Requests |-> pc'[r]]
      BY <2>1, <3>1 DEF FileInv, Arrivals
    <3>4. ASSUME NEW r \in Requests
          PROVE  /\ r > arrived' => pc'[r] = "none"
                 /\ pc'[r] \in {"load", "reopen"} => kind'[r] \in Loaders
      BY <2>1, <3>1 DEF FileInv, Arrivals, Requests
    <3> QED  BY <3>1, <3>2, <3>3, <3>4 DEF FileInv, Arrivals, Requests
  <2>2. CASE \E t \in urls : Arrives("page", None, t, "gate")
    BY <2>1, <2>2 DEF Kinds
  <2>3. CASE \E stage \in Stages \ {"done"} : Arrives("advance", stage, cookie, "gate")
    BY <2>1, <2>3 DEF Kinds
  <2>4. CASE \E k \in {"complete", "discover"} : Arrives(k, None, cookie, "gate")
    BY <2>1, <2>4 DEF Kinds
  <2>5. CASE \E b \in Bots : Arrives("token", b, cookie, "gate")
    BY <2>1, <2>5 DEF Kinds
  <2>6. CASE \E a \in {None, "reopen"} : Arrives("command", a, NoToken, "load")
    BY <2>1, <2>6 DEF Kinds, Loaders
  <2> QED  BY <1>2, <2>2, <2>3, <2>4, <2>5, <2>6 DEF Browses
<1>3. CASE OperatorPosts \/ TimePasses
  BY <1>3 DEF OperatorPosts, TimePasses, envVars, localVars, FileInv, Arrivals,
              Exclusive, EnvKeepsEveryWrite
<1>4. ASSUME NEW r \in Requests, Works(r) \/ Ends(r) PROVE FileInv'
  <2>1. CASE Gates(r)
    BY <2>1, FileStep DEF Gates, localVars
  <2>2. CASE Verifies(r)
    <3>1. /\ Admitted[kind[r]] # "replace"
          /\ Admitted[kind[r]] \in {"load", "reopen"} => kind[r] \in Loaders
      BY DEF Admitted, Kinds, Loaders, FileInv, Arrivals
    <3> QED  BY <2>2, <3>1, FileStep DEF Verifies, localVars
  <2>3. CASE Revokes(r)
    BY <2>3, FileStep DEF Revokes
  <2>4. CASE Mints(r)
    BY <2>4, FileStep DEF Mints
  <2>5. CASE Answers(r)
    BY <2>5, FileStep DEF Answers, localVars
  <2>6. CASE Loads(r)
    <3>1. AfterLoad(r) \in {"save", "done", "getMe", "read", "revoke", "reopen"}
      BY <2>6 DEF Loads, AfterLoad, Loaders, FileInv, Arrivals
    <3>2. kind[r] \in Loaders
      BY <2>6 DEF Loads, FileInv, Arrivals
    <3> QED  BY <2>6, <3>1, <3>2, FileStep DEF Loads
  <2>7. CASE Saves(r)
    BY <2>7, FileStep DEF Saves, localVars
  <2>8. CASE Commits(r)
    BY <2>8, FileStep DEF Commits, localVars
  <2>9. CASE Reopens(r)
    BY <2>9, FileStep DEF Reopens, localVars
  <2>10. CASE GetsMe(r)
    BY <2>10, FileStep DEF GetsMe, localVars
  <2>11. CASE ReadsEnv(r)
    BY <2>11, FileStep DEF ReadsEnv
  <2>12. CASE GetsUpdates(r)
    BY <2>12, FileStep DEF GetsUpdates
  <2>13. CASE IssuesCode(r) \/ ClearsCode(r) \/ Connects(r)
    BY <2>13, FileStep DEF IssuesCode, ClearsCode, Connects, localVars
  <2>14. CASE Locks(r)
    <3>1. Arrivals'
      BY <2>14 DEF Locks, Goes, FileInv, Arrivals
    <3>2. ASSUME NEW q \in Requests PROVE ~(pc[q] = "replace")
      BY <2>14 DEF Locks, Free, FileInv, Exclusive, Requests
    <3>3. file' = [q \in Requests |-> file'[q]] /\ file'[r] = env /\ lock' = r
      BY <2>14 DEF Locks, FileInv, Exclusive
    <3>4. ASSUME NEW q \in Requests, pc'[q] = "replace" PROVE q = r
      BY <2>14, <3>2, <3>4 DEF Locks, Goes, FileInv, Arrivals
    <3> QED  BY <2>14, <3>1, <3>3, <3>4 DEF Locks, FileInv, Exclusive, EnvKeepsEveryWrite
  <2>15. CASE Replaces(r)
    BY <2>15 DEF Replaces, AfterWrite, Updated, Goes, localVars, FileInv, Arrivals,
                 Exclusive, EnvKeepsEveryWrite, Requests
  <2>16. CASE WriteFails(r)
    BY <2>16 DEF WriteFails, GivesUp, Released, Updated, Goes, localVars, FileInv, Arrivals,
                 Exclusive, EnvKeepsEveryWrite, Requests
  <2>17. CASE Ends(r)
    BY <2>17 DEF Ends, Released, Goes, localVars, FileInv, Arrivals,
                 Exclusive, EnvKeepsEveryWrite, Requests
  <2> QED  BY <1>4, <2>1, <2>2, <2>3, <2>4, <2>5, <2>6, <2>7, <2>8, <2>9, <2>10, <2>11,
              <2>12, <2>13, <2>14, <2>15, <2>16, <2>17 DEF Works
<1> QED  BY <1>1, <1>2, <1>3, <1>4 DEF Next

(* Overlapping and failing writers lose nothing of each other. *)
THEOREM SpecEnvKeepsEveryWrite == Spec => []EnvKeepsEveryWrite
<1>1. FileInv => EnvKeepsEveryWrite
  BY DEF FileInv
<1> QED  BY FileInit, FileNext, <1>1, PTL DEF Spec

-----------------------------------------------------------------------------
(* The table of tokens; a row is only ever added or consumed. *)
TokenRow == [expires : Nat, consumed : BOOLEAN]

TokenRows ==
    /\ TokenTTL \in Nat /\ now \in Nat /\ tokens \in Seq(TokenRow)
    /\ tok = [r \in Requests |-> tok[r]]
    /\ fresh = [r \in Requests |-> fresh[r]] /\ seen = [r \in Requests |-> seen[r]]

Burnt(t) == t \in DOMAIN tokens /\ tokens[t].consumed

(* A completion found its token unspent and left it spent, so another one    *)
(* had another token.                                                        *)
Spending ==
    \A r \in spent : /\ r \in 1 .. arrived /\ Burnt(tok[r])
                     /\ \A s \in spent \ {r} : tok[s] # tok[r]

(* A load of the page revokes its own token with the others, if nobody did   *)
(* so between the gate and the update.                                       *)
Trading ==
    \A r \in Requests :
        /\ r > arrived => fresh[r] = NoToken
        /\ kind[r] = "page" =>
              /\ pc[r] = "revoke" => tok[r] \in DOMAIN tokens
              /\ pc[r] = "mint" => Burnt(tok[r]) \/ tok[r] \in seen[r] \cap DOMAIN tokens
              /\ fresh[r] # NoToken => Burnt(tok[r])

TokenInv == FileInv /\ TokenRows /\ Spending /\ Trading

LEMMA TokenInit == Init => TokenInv
<1> SUFFICES ASSUME Init PROVE TokenInv
  OBVIOUS
<1>1. FileInv
  BY FileInit
<1>2. tokens \in Seq(TokenRow)
  BY SetupAssumption DEF Init, TokenRow, Limit, SetupRow
<1>3. TokenRows
  BY <1>2, SetupAssumption DEF Init, TokenRows
<1>4. Spending /\ Trading
  BY DEF Init, Spending, Trading
<1> QED  BY <1>1, <1>3, <1>4 DEF TokenInv

(* A request that moves on, and is not a page that is to revoke or to mint. *)
LEMMA TokenStep ==
    ASSUME TokenInv, FileInv', NEW r \in Requests, NEW place, pc[r] # "none",
           place \in {"revoke", "mint"} => kind[r] # "page", Goes(r, place),
           UNCHANGED <<tokens, now, spent, arrived, kind, tok, fresh, seen>>
    PROVE  TokenInv'
<1>1. TokenRows' /\ Spending'
  BY DEF TokenInv, TokenRows, Spending, Burnt
<1>2. Trading'
  BY DEF TokenInv, Trading, Burnt, Goes, FileInv, Arrivals
<1> QED  BY <1>1, <1>2 DEF TokenInv

(* Revokes, Mints, Commits and Arrives change what TokenInv is about. *)
LEMMA RevokesTokens ==
    ASSUME TokenInv, FileInv', NEW r \in Requests, Revokes(r)
    PROVE  TokenInv'
<1>1. /\ pc' = [pc EXCEPT ![r] = "mint"] /\ seen' = [seen EXCEPT ![r] = Outstanding]
      /\ UNCHANGED <<tokens, now, spent, arrived, kind, tok, fresh>> /\ pc[r] = "revoke"
  BY DEF Revokes, Goes, At, dbVars, outsideVars
<1>2. TokenRows' /\ Spending'
  BY <1>1 DEF TokenInv, TokenRows, Spending, Burnt
<1>3. ASSUME kind[r] = "page" PROVE Burnt(tok[r]) \/ tok[r] \in Outstanding
  BY <1>1, <1>3 DEF TokenInv, Trading, Burnt, Outstanding
<1>4. Trading'
  <2>1. Outstanding \subseteq DOMAIN tokens
    BY DEF Outstanding
  <2>2. ASSUME NEW q \in Requests, q # r
        PROVE  pc'[q] = pc[q] /\ seen'[q] = seen[q]
    BY <1>1, <2>2 DEF TokenInv, TokenRows, FileInv, Arrivals
  <2>3. pc'[r] = "mint" /\ seen'[r] = Outstanding
    BY <1>1 DEF TokenInv, TokenRows, FileInv, Arrivals
  <2>4. \A t : Burnt(t)' <=> Burnt(t)
    BY <1>1 DEF Burnt
  <2> QED  BY <1>1, <1>3, <2>1, <2>2, <2>3, <2>4 DEF TokenInv, Trading
<1> QED  BY <1>2, <1>4 DEF TokenInv

LEMMA MintsTokens ==
    ASSUME TokenInv, FileInv', NEW r \in Requests, Mints(r)
    PROVE  TokenInv'
<1> DEFINE left == [t \in DOMAIN tokens |->
                       [tokens[t] EXCEPT !.consumed = @ \/ t \in seen[r]]]
           new  == [expires |-> now + TokenTTL, consumed |-> FALSE]
<1>1. /\ tokens' = Append(left, new)
      /\ fresh' = [fresh EXCEPT ![r] = Len(tokens) + 1] /\ pc[r] = "mint"
      /\ UNCHANGED <<now, spent, arrived, kind, tok, seen>>
  BY DEF Mints, At
<1>2. /\ tokens \in Seq(TokenRow) /\ new \in TokenRow
      /\ DOMAIN tokens = 1 .. Len(tokens) /\ Len(tokens) \in Nat
      /\ \A t \in DOMAIN tokens : tokens[t] \in TokenRow
  <2>1. tokens \in Seq(TokenRow) /\ now + TokenTTL \in Nat
    BY DEF TokenInv, TokenRows
  <2>2. new \in TokenRow
    BY <2>1 DEF TokenRow
  <2> HIDE DEF new
  <2> QED  BY <2>1, <2>2, LenProperties, ElementOfSeq
<1>3. /\ left \in Seq(TokenRow) /\ Len(left) = Len(tokens)
      /\ \A t \in DOMAIN tokens :
             left[t].consumed <=> (tokens[t].consumed \/ t \in seen[r])
  <2>1. \A t \in DOMAIN tokens :
           /\ left[t] \in TokenRow
           /\ left[t].consumed <=> (tokens[t].consumed \/ t \in seen[r])
    BY <1>2 DEF TokenRow
  <2>2. left \in [1 .. Len(tokens) -> TokenRow]
    BY <1>2, <2>1
  <2> HIDE DEF left
  <2> QED  BY <1>2, <2>1, <2>2, SeqDef, LenProperties
<1> HIDE DEF left, new
<1>4. /\ tokens' \in Seq(TokenRow) /\ DOMAIN tokens' = 1 .. Len(tokens) + 1
      /\ \A t \in DOMAIN tokens : tokens'[t] = left[t]
  BY <1>1, <1>2, <1>3, AppendProperties
<1>5. /\ \A t : Burnt(t) => Burnt(t)'
      /\ \A t \in seen[r] \cap DOMAIN tokens : Burnt(t)'
  BY <1>2, <1>3, <1>4 DEF Burnt
<1>6. TokenRows'
  BY <1>1, <1>4 DEF TokenInv, TokenRows
<1>7. Spending'
  BY <1>1, <1>5 DEF TokenInv, Spending
<1>8. Trading'
  <2>1. pc' \in {[pc EXCEPT ![r] = "answer"], [pc EXCEPT ![r] = "done"]}
    BY DEF Mints, Goes
  <2>2. \A t \in DOMAIN tokens : t \in DOMAIN tokens'
    BY <1>2, <1>4
  <2>3. r <= arrived
    BY <1>1 DEF TokenInv, FileInv, Arrivals, Requests
  <2>4. ASSUME NEW q \in Requests, q # r
        PROVE  /\ q > arrived' => fresh'[q] = NoToken
               /\ kind'[q] = "page" =>
                     /\ pc'[q] = "revoke" => tok'[q] \in DOMAIN tokens'
                     /\ pc'[q] = "mint" => \/ Burnt(tok[q])'
                                          \/ tok'[q] \in seen'[q] \cap DOMAIN tokens'
                     /\ fresh'[q] # NoToken => Burnt(tok[q])'
    BY <1>1, <1>5, <2>1, <2>2, <2>4 DEF TokenInv, TokenRows, Trading, FileInv, Arrivals
  <2>5. ~(r > arrived') /\ pc'[r] \notin {"revoke", "mint"}
    BY <1>1, <2>1, <2>3 DEF TokenInv, FileInv, Arrivals, Requests
  <2>6. kind[r] = "page" => Burnt(tok[r])'
    BY <1>1, <1>5 DEF TokenInv, Trading
  <2> QED  BY <1>1, <2>4, <2>5, <2>6 DEF Trading
<1> QED  BY <1>6, <1>7, <1>8 DEF TokenInv

LEMMA CommitsTokens ==
    ASSUME TokenInv, FileInv', NEW r \in Requests, Commits(r)
    PROVE  TokenInv'
<1>1. /\ pc' = [pc EXCEPT ![r] = "done"] /\ pc[r] = "commit"
      /\ UNCHANGED <<now, arrived, kind, tok, fresh, seen>>
  BY DEF Commits, Goes, At, outsideVars, localVars
<1>2. CASE UNCHANGED <<tokens, spent>>
  BY <1>1, <1>2, TokenStep DEF Goes
<1>3. CASE /\ Spendable(tok[r]) /\ spent' = spent \cup {r}
           /\ tokens' = [tokens EXCEPT ![tok[r]].consumed = TRUE]
  <2>1. /\ tok[r] \in DOMAIN tokens /\ ~tokens[tok[r]].consumed
        /\ tokens \in Seq(TokenRow) /\ tokens[tok[r]] \in TokenRow
    BY <1>3 DEF Spendable, Live, TokenInv, TokenRows
  <2> DEFINE e == [tokens[tok[r]] EXCEPT !.consumed = TRUE]
  <2>2. e \in TokenRow /\ e.consumed
    BY <2>1 DEF TokenRow
  <2>3. tokens' = [tokens EXCEPT ![tok[r]] = e]
    BY <1>3
  <2> HIDE DEF e
  <2>4. /\ tokens' \in Seq(TokenRow) /\ DOMAIN tokens' = DOMAIN tokens
        /\ \A t \in DOMAIN tokens : tokens'[t] = IF t = tok[r] THEN e ELSE tokens[t]
    BY <2>1, <2>2, <2>3, ExceptSeq
  <2>5. (\A t : Burnt(t) => Burnt(t)') /\ Burnt(tok[r])' /\ ~Burnt(tok[r])
    BY <1>1, <2>1, <2>2, <2>4 DEF Burnt
  <2>6. TokenRows'
    BY <1>1, <2>4 DEF TokenInv, TokenRows
  <2>7. Spending'
    <3>1. r \in 1 .. arrived
      BY <1>1 DEF TokenInv, FileInv, Arrivals, Requests
    <3> QED  BY <1>1, <1>3, <2>5, <3>1 DEF TokenInv, Spending
  <2>8. Trading'
    <3>1. \A q \in Requests : pc'[q] \in {"revoke", "mint"} => pc'[q] = pc[q]
      BY <1>1 DEF TokenInv, FileInv, Arrivals
    <3> QED  BY <1>1, <2>4, <2>5, <3>1 DEF TokenInv, Trading
  <2> QED  BY <2>6, <2>7, <2>8 DEF TokenInv
<1> QED  BY <1>2, <1>3 DEF Commits

LEMMA ArrivesTokens ==
    ASSUME TokenInv, FileInv', NEW k, NEW a, NEW t, NEW place, Arrives(k, a, t, place),
           place \notin {"revoke", "mint"}
    PROVE  TokenInv'
<1> DEFINE n == arrived + 1
<1>1. /\ n \in Requests /\ arrived' = n /\ arrived \in Nat
      /\ pc' = [pc EXCEPT ![n] = place] /\ kind' = [kind EXCEPT ![n] = k]
      /\ tok' = [tok EXCEPT ![n] = t]
      /\ UNCHANGED <<tokens, now, spent, fresh, seen>>
  BY DEF Arrives, Goes, dbVars, outsideVars, TokenInv, FileInv, Arrivals, Requests
<1>2. \A q \in Requests : q # n => /\ pc'[q] = pc[q] /\ kind'[q] = kind[q]
                                  /\ tok'[q] = tok[q]
  BY <1>1 DEF TokenInv, FileInv, Arrivals, TokenRows
<1>3. pc'[n] = place /\ fresh[n] = NoToken
  BY <1>1 DEF TokenInv, FileInv, Arrivals, Trading, Requests
<1>4. \A q \in spent : q \in Requests /\ q # n
  BY <1>1 DEF TokenInv, FileInv, Arrivals, Spending, Requests
<1>5. TokenRows'
  BY <1>1 DEF TokenInv, TokenRows
<1>6. \A u : Burnt(u)' <=> Burnt(u)
  BY <1>1 DEF Burnt
<1>7. Spending'
  BY <1>1, <1>2, <1>4, <1>6 DEF TokenInv, Spending
<1>8. Trading'
  BY <1>1, <1>2, <1>3, <1>6 DEF TokenInv, Trading, Requests
<1> QED  BY <1>5, <1>7, <1>8 DEF TokenInv

LEMMA TokenNext == TokenInv /\ [Next]_vars => TokenInv'
<1> SUFFICES ASSUME TokenInv, [Next]_vars PROVE TokenInv'
  OBVIOUS
<1> USE DEF At
<1>1. FileInv'
  BY FileNext DEF TokenInv
<1>2. CASE UNCHANGED vars
  <2>1. UNCHANGED <<tokens, now, spent, arrived, pc, kind, tok, fresh, seen>>
    BY <1>2 DEF vars, dbVars, outsideVars, localVars
  <2>2. TokenRows' /\ Spending'
    BY <2>1 DEF TokenInv, TokenRows, Spending, Burnt
  <2>3. Trading'
    BY <2>1 DEF TokenInv, Trading, Burnt
  <2> QED  BY <1>1, <2>2, <2>3 DEF TokenInv
<1>3. CASE Browses
  <2>1. ASSUME NEW k, NEW a, NEW t, NEW place \in {"gate", "load"}, Arrives(k, a, t, place)
        PROVE  TokenInv'
    BY <1>1, <2>1, ArrivesTokens
  <2>2. CASE \E t \in urls : Arrives("page", None, t, "gate")
    BY <2>1, <2>2
  <2>3. CASE \E stage \in Stages \ {"done"} : Arrives("advance", stage, cookie, "gate")
    BY <2>1, <2>3
  <2>4. CASE \E k \in {"complete", "discover"} : Arrives(k, None, cookie, "gate")
    BY <2>1, <2>4
  <2>5. CASE \E b \in Bots : Arrives("token", b, cookie, "gate")
    BY <2>1, <2>5
  <2>6. CASE \E a \in {None, "reopen"} : Arrives("command", a, NoToken, "load")
    BY <2>1, <2>6
  <2> QED  BY <1>3, <2>2, <2>3, <2>4, <2>5, <2>6 DEF Browses
<1>4. CASE OperatorPosts
  <2>1. UNCHANGED <<tokens, now, spent, arrived, pc, kind, tok, fresh, seen>>
    BY <1>4 DEF OperatorPosts, dbVars, localVars
  <2>2. TokenRows' /\ Spending'
    BY <2>1 DEF TokenInv, TokenRows, Spending, Burnt
  <2>3. Trading'
    BY <2>1 DEF TokenInv, Trading, Burnt
  <2> QED  BY <1>1, <2>2, <2>3 DEF TokenInv
<1>5. CASE TimePasses
  <2>1. UNCHANGED <<tokens, spent, arrived, pc, kind, tok, fresh, seen>> /\ now' = now + 1
    BY <1>5 DEF TimePasses, dbVars, localVars
  <2>2. TokenRows' /\ Spending'
    <3>1. now' \in Nat
      BY <2>1 DEF TokenInv, TokenRows
    <3>2. TokenRows'
      BY <2>1, <3>1 DEF TokenInv, TokenRows
    <3> QED  BY <2>1, <3>2 DEF TokenInv, Spending, Burnt
  <2>3. Trading'
    BY <2>1 DEF TokenInv, Trading, Burnt
  <2> QED  BY <1>1, <2>2, <2>3 DEF TokenInv
<1>6. ASSUME NEW r \in Requests, Works(r) \/ Ends(r) PROVE TokenInv'
  <2>1. CASE Gates(r)
    BY <1>1, <2>1, TokenStep DEF Gates, dbVars, outsideVars, localVars
  <2>2. CASE Verifies(r)
    <3>1. /\ pc[r] = "verify" /\ kind[r] \in Kinds
          /\ Goes(r, IF Live(tok[r]) THEN Admitted[kind[r]] ELSE "done")
          /\ UNCHANGED <<tokens, now, spent, arrived, kind, tok, fresh, seen>>
      BY <2>2 DEF Verifies, dbVars, outsideVars, localVars, TokenInv, FileInv, Arrivals
    <3>2. CASE kind[r] = "page" /\ Live(tok[r])
      <4>1. pc' = [pc EXCEPT ![r] = "revoke"] /\ tok[r] \in DOMAIN tokens
        BY <3>1, <3>2 DEF Goes, Admitted, Live
      <4>2. TokenRows' /\ Spending'
        BY <3>1 DEF TokenInv, TokenRows, Spending, Burnt
      <4>3. Trading'
        BY <3>1, <4>1 DEF TokenInv, Trading, Burnt, FileInv, Arrivals
      <4> QED  BY <1>1, <4>2, <4>3 DEF TokenInv
    <3>3. CASE kind[r] # "page" \/ ~Live(tok[r])
      <4>1. PICK place : Goes(r, place) /\ (place \in {"revoke", "mint"} => kind[r] # "page")
        BY <3>1, <3>3
      <4> QED  BY <1>1, <3>1, <4>1, TokenStep
    <3> QED  BY <3>2, <3>3
  <2>3. CASE Revokes(r)
    BY <1>1, <2>3, RevokesTokens
  <2>4. CASE Mints(r)
    BY <1>1, <2>4, MintsTokens
  <2>5. CASE Answers(r)
    BY <1>1, <2>5, TokenStep DEF Answers, dbVars, localVars
  <2>6. CASE Loads(r)
    <3>1. kind[r] # "page"
      BY <2>6 DEF Loads, Loaders, TokenInv, FileInv, Arrivals
    <3> QED  BY <1>1, <2>6, <3>1, TokenStep DEF Loads, dbVars, outsideVars
  <2>7. CASE Saves(r)
    BY <1>1, <2>7, TokenStep DEF Saves, outsideVars, localVars
  <2>8. CASE Commits(r)
    BY <1>1, <2>8, CommitsTokens
  <2>9. CASE Reopens(r)
    <3>1. kind[r] # "page"
      BY <2>9 DEF Reopens, Loaders, TokenInv, FileInv, Arrivals
    <3> QED  BY <1>1, <2>9, <3>1, TokenStep DEF Reopens, outsideVars, localVars
  <2>10. CASE GetsMe(r)
    BY <1>1, <2>10, TokenStep DEF GetsMe, dbVars, outsideVars, localVars
  <2>11. CASE ReadsEnv(r)
    BY <1>1, <2>11, TokenStep DEF ReadsEnv, dbVars, outsideVars
  <2>12. CASE GetsUpdates(r)
    BY <1>1, <2>12, TokenStep DEF GetsUpdates, dbVars, outsideVars
  <2>13. CASE IssuesCode(r) \/ ClearsCode(r) \/ Connects(r)
    BY <1>1, <2>13, TokenStep DEF IssuesCode, ClearsCode, Connects, outsideVars, localVars
  <2>14. CASE Locks(r)
    BY <1>1, <2>14, TokenStep DEF Locks, dbVars, outsideVars
  <2>15. CASE Replaces(r)
    BY <1>1, <2>15, TokenStep DEF Replaces, AfterWrite, dbVars, outsideVars, localVars
  <2>16. CASE WriteFails(r)
    BY <1>1, <2>16, TokenStep DEF WriteFails, GivesUp, dbVars, outsideVars, localVars
  <2>17. CASE Ends(r)
    BY <1>1, <2>17, TokenStep DEF Ends, dbVars, outsideVars, localVars
  <2> QED  BY <1>6, <2>1, <2>2, <2>3, <2>4, <2>5, <2>6, <2>7, <2>8, <2>9, <2>10, <2>11,
              <2>12, <2>13, <2>14, <2>15, <2>16, <2>17 DEF Works
<1> QED  BY <1>2, <1>3, <1>4, <1>5, <1>6 DEF Next

(* Of the requests admitted with one token, one completes the setup.         *)
THEOREM SpecTokenSpentOnce == Spec => []TokenSpentOnce
<1>1. TokenInv => TokenSpentOnce
  BY DEF TokenInv, Spending, Burnt, TokenSpentOnce
<1> QED  BY TokenInit, TokenNext, <1>1, PTL DEF Spec

(* A token that was traded for a cookie is dead. *)
THEOREM SpecUrlDiesOnUse == Spec => []UrlDiesOnUse
<1>1. TokenInv => UrlDiesOnUse
  BY DEF TokenInv, Trading, Burnt, UrlDiesOnUse
<1> QED  BY TokenInit, TokenNext, <1>1, PTL DEF Spec

-----------------------------------------------------------------------------
(* What the file holds when the wizard says that Telegram is connected.     *)

Configured == env.bot # None /\ env.chat # None /\ env.user # None

(* Where a request that writes the file has got, and what it brings: the   *)
(* bot of the form, or a group of the bot that the file has.               *)
RequestOk(r) ==
    /\ kind[r] = "token" /\ pc[r] # "none" => arg[r] \in Bots
    /\ pc[r] = "getMe" => kind[r] = "token"
    /\ pc[r] \in {"read", "getUpdates"} => kind[r] = "discover"
    /\ pc[r] = "getUpdates" => env.bot # None
    /\ pc[r] \in {"lock", "replace"} =>
          \/ kind[r] = "token"
          \/ /\ kind[r] = "discover" /\ env.bot # None
             /\ found[r].chat # None /\ found[r].user # None
    /\ pc[r] \in {"clear", "connect"} => Configured

ConfigInv ==
    /\ DOMAIN setup = {"stage", "connected", "completed", "challenge"}
    /\ codes \in Nat /\ posted \in Seq(Message)
    /\ arg = [r \in Requests |-> arg[r]] /\ found = [r \in Requests |-> found[r]]
    /\ \A r \in Requests : RequestOk(r)
    /\ ConnectedIsConfigured

(* The wizard does not start connected with a file that says otherwise.    *)
StartsConfigured ==
    \A l \in Limits : l.setup.connected => l.env.bot # None /\ l.env.chat # None /\ l.env.user # None

LEMMA ConfigInit == StartsConfigured /\ Init => ConfigInv
<1> SUFFICES ASSUME StartsConfigured, Init PROVE ConfigInv
  OBVIOUS
<1>1. limit \in Limit /\ setup = limit.setup /\ env = limit.env
  BY SetupAssumption DEF Init
<1>2. setup \in SetupRow /\ ConnectedIsConfigured
  BY <1>1 DEF StartsConfigured, Init, Limit, ConnectedIsConfigured
<1>3. \A r \in Requests : RequestOk(r)
  BY DEF Init, RequestOk
<1>4. posted \in Seq(Message)
  BY EmptySeq DEF Init
<1>5. codes \in Nat
  BY <1>2 DEF Init, SetupRow
<1>6. arg = [r \in Requests |-> arg[r]] /\ found = [r \in Requests |-> found[r]]
  BY DEF Init
<1> QED BY <1>2, <1>3, <1>4, <1>5, <1>6 DEF ConfigInv, SetupRow

(* A request that moves on without writing the file. *)
LEMMA ConfigStep ==
    ASSUME FileInv, ConfigInv, NEW r \in Requests, NEW place, Goes(r, place), RequestOk(r)',
           UNCHANGED <<env, kind, posted>>, codes' \in Nat,
           \/ UNCHANGED arg   \/ \E a : arg' = [arg EXCEPT ![r] = a],
           \/ UNCHANGED found \/ \E m : found' = [found EXCEPT ![r] = m],
           DOMAIN setup' = DOMAIN setup,
           setup'.connected => setup.connected \/ Configured
    PROVE  ConfigInv'
<1>1. \A q \in Requests : q # r => pc'[q] = pc[q] /\ arg'[q] = arg[q] /\ found'[q] = found[q]
  BY DEF Goes, FileInv, Arrivals, ConfigInv
<1>2. ASSUME NEW q \in Requests PROVE RequestOk(q)'
  <2>1. CASE q = r
    BY <2>1
  <2>2. CASE q # r
    <3>1. RequestOk(q) /\ pc'[q] = pc[q] /\ arg'[q] = arg[q] /\ found'[q] = found[q] /\ env' = env /\ kind' = kind
      BY <1>1, <2>2 DEF ConfigInv
    <3> QED BY <3>1 DEF RequestOk, Configured
  <2> QED BY <2>1, <2>2
<1>3. ConnectedIsConfigured'
  BY DEF ConfigInv, ConnectedIsConfigured, Configured
<1>4. arg' = [q \in Requests |-> arg'[q]] /\ found' = [q \in Requests |-> found'[q]]
  BY DEF ConfigInv
<1> QED BY <1>2, <1>3, <1>4 DEF ConfigInv

(* The file is replaced: what it had it has, or has something new.  The     *)
(* request goes on or, if the directory could not be synced, ends.          *)
LEMMA ReplaceConfigures ==
    ASSUME FileInv, ConfigInv, NEW r \in Requests, pc[r] = "replace",
           env' = Updated(r, file[r]),
           NEW place \in {AfterWrite(r), "done"}, Goes(r, place),
           UNCHANGED <<setup, codes, posted, arg, found, kind>>
    PROVE  ConfigInv'
<1>1. /\ pc[r] = "replace" /\ file[r] = env /\ env' = Updated(r, env)
      /\ pc' = [pc EXCEPT ![r] = place]
  BY DEF Goes, FileInv, Exclusive
<1>2. RequestOk(r) /\ None \notin Bots
  BY SetupAssumption DEF ConfigInv
<1>3. /\ env'.bot = IF kind[r] = "token" THEN arg[r] ELSE env.bot
      /\ env'.chat = IF kind[r] = "token" THEN env.chat ELSE found[r].chat
      /\ env'.user = IF kind[r] = "token" THEN env.user ELSE found[r].user
  BY <1>1 DEF Updated
<1>4. env.bot # None => env'.bot # None
  BY <1>1, <1>2, <1>3 DEF RequestOk
<1>5. Configured => Configured'
  BY <1>1, <1>2, <1>3 DEF RequestOk, Configured
<1>6. RequestOk(r)'
  <2>1. CASE kind[r] = "token"
    <3>1. pc'[r] \in {"issue", "done"} /\ arg'[r] \in Bots
      BY <1>1, <1>2, <2>1 DEF RequestOk, AfterWrite, FileInv, Arrivals
    <3> QED BY <1>1, <3>1 DEF RequestOk
  <2>2. CASE kind[r] # "token"
    <3>1. pc'[r] \in {"clear", "done"} /\ Configured'
      BY <1>1, <1>2, <1>3, <2>2 DEF RequestOk, AfterWrite, FileInv, Arrivals, Configured
    <3> QED BY <1>1, <2>2, <3>1 DEF RequestOk
  <2> QED BY <2>1, <2>2
<1>7. ASSUME NEW q \in Requests PROVE RequestOk(q)'
  <2>1. CASE q = r
    BY <1>6, <2>1
  <2>2. CASE q # r
    <3>1. RequestOk(q) /\ pc'[q] = pc[q] /\ arg'[q] = arg[q] /\ found'[q] = found[q] /\ kind'[q] = kind[q]
      BY <1>1, <2>2 DEF ConfigInv, FileInv, Arrivals
    <3> QED BY <1>4, <1>5, <3>1 DEF RequestOk
  <2> QED BY <2>1, <2>2
<1>8. ConnectedIsConfigured'
  BY <1>1, <1>5 DEF ConfigInv, ConnectedIsConfigured, Configured
<1> QED BY <1>1, <1>7, <1>8 DEF ConfigInv

LEMMA ConfigNext == FileInv /\ ConfigInv /\ [Next]_vars => ConfigInv'
<1> SUFFICES ASSUME FileInv, ConfigInv, [Next]_vars PROVE ConfigInv'
  OBVIOUS
<1> USE DEF At
<1>1. CASE UNCHANGED vars
  <2>1. UNCHANGED <<setup, codes, posted, arg, found, kind, pc, env>>
    BY <1>1 DEF vars, dbVars, envVars, outsideVars, localVars
  <2> QED BY <2>1 DEF ConfigInv, RequestOk, Configured, ConnectedIsConfigured
<1>2. CASE Browses
  <2>1. ASSUME NEW k \in Kinds, NEW a, NEW t, NEW place, Arrives(k, a, t, place),
               place \in {"gate", "load"}, k = "token" => a \in Bots
        PROVE  ConfigInv'
    <3>1. /\ arrived + 1 \in Requests /\ Goes(arrived + 1, place)
          /\ kind' = [kind EXCEPT ![arrived + 1] = k]
          /\ arg' = [arg EXCEPT ![arrived + 1] = a]
          /\ UNCHANGED <<env, setup, codes, posted, found>>
      BY <2>1 DEF Arrives, FileInv, Arrivals, Requests, dbVars, envVars, outsideVars
    <3>2. ASSUME NEW q \in Requests PROVE RequestOk(q)'
      <4>1. CASE q = arrived + 1
        <5>1. kind'[q] = k /\ arg'[q] = a /\ pc'[q] = place
          BY <3>1, <4>1 DEF Goes, FileInv, Arrivals, ConfigInv
        <5> QED BY <2>1, <5>1 DEF RequestOk
      <4>2. CASE q # arrived + 1
        <5>1. RequestOk(q) /\ kind'[q] = kind[q] /\ arg'[q] = arg[q] /\ pc'[q] = pc[q]
          BY <3>1, <4>2 DEF Goes, FileInv, Arrivals, ConfigInv
        <5> QED BY <3>1, <5>1 DEF RequestOk, Configured
      <4> QED BY <4>1, <4>2
    <3> QED BY <3>1, <3>2 DEF ConfigInv, ConnectedIsConfigured
  <2>2. CASE \E t \in urls : Arrives("page", None, t, "gate")
    BY <2>1, <2>2 DEF Kinds
  <2>3. CASE \E stage \in Stages \ {"done"} : Arrives("advance", stage, cookie, "gate")
    BY <2>1, <2>3 DEF Kinds
  <2>4. CASE \E k \in {"complete", "discover"} : Arrives(k, None, cookie, "gate")
    BY <2>1, <2>4 DEF Kinds
  <2>5. CASE \E b \in Bots : Arrives("token", b, cookie, "gate")
    BY <2>1, <2>5 DEF Kinds
  <2>6. CASE \E a \in {None, "reopen"} : Arrives("command", a, NoToken, "load")
    BY <2>1, <2>6 DEF Kinds
  <2> QED BY <1>2, <2>2, <2>3, <2>4, <2>5, <2>6 DEF Browses
<1>3. CASE OperatorPosts
  <2>1. PICK code \in 1 .. codes, b \in Bots, c \in Chats, u \in Users \cup {None} :
            posted' = Append(posted, [bot |-> b, code |-> code, chat |-> c, user |-> u])
    BY <1>3 DEF OperatorPosts
  <2>2. [bot |-> b, code |-> code, chat |-> c, user |-> u] \in Message
    BY DEF ConfigInv, Message
  <2>3. posted' \in Seq(Message)
    BY <2>1, <2>2, AppendProperties DEF ConfigInv
  <2>4. UNCHANGED <<setup, codes, arg, found, kind, pc, env>>
    BY <1>3 DEF OperatorPosts, dbVars, envVars, localVars
  <2> QED BY <2>3, <2>4 DEF ConfigInv, RequestOk, Configured, ConnectedIsConfigured
<1>4. CASE TimePasses
  <2>1. UNCHANGED <<setup, codes, posted, arg, found, kind, pc, env>>
    BY <1>4 DEF TimePasses, dbVars, envVars, localVars
  <2> QED BY <2>1 DEF ConfigInv, RequestOk, Configured, ConnectedIsConfigured
<1>5. ASSUME NEW r \in Requests, Works(r) \/ Ends(r) PROVE ConfigInv'
  <2> USE DEF dbVars, envVars, outsideVars, localVars
  <2>0. RequestOk(r) /\ pc = [q \in Requests |-> pc[q]] /\ kind[r] \in Kinds
        /\ codes \in Nat /\ DOMAIN setup = {"stage", "connected", "completed", "challenge"}
        /\ (setup.connected => Configured)
    BY DEF ConfigInv, FileInv, Arrivals, ConnectedIsConfigured, Configured
  <2>1. ASSUME NEW place, Goes(r, place), pc[r] # "none", place \notin {"getUpdates", "lock", "replace", "clear", "connect"},
               place = "getMe" => kind[r] = "token", place = "read" => kind[r] = "discover",
               UNCHANGED <<env, kind, posted, arg, found>>, codes' \in Nat,
               DOMAIN setup' = DOMAIN setup, setup'.connected => setup.connected \/ Configured
        PROVE  ConfigInv'
    <3>1. RequestOk(r)'
      BY <2>0, <2>1 DEF RequestOk, Goes
    <3> QED BY <2>1, <3>1, ConfigStep
  <2>2. CASE Gates(r)
    BY <2>0, <2>1, <2>2 DEF Gates
  <2>3. CASE Verifies(r)
    <3>1. Admitted[kind[r]] \in {"revoke", "commit", "load"}
      BY <2>0 DEF Admitted, Kinds
    <3> QED BY <2>0, <2>1, <2>3, <3>1 DEF Verifies
  <2>4. CASE Revokes(r)
    BY <2>0, <2>1, <2>4 DEF Revokes
  <2>5. CASE Mints(r)
    BY <2>0, <2>1, <2>5 DEF Mints
  <2>6. CASE Answers(r)
    BY <2>0, <2>1, <2>6 DEF Answers
  <2>7. CASE Loads(r)
    <3>1. /\ AfterLoad(r) \in {"save", "done", "getMe", "read", "revoke", "reopen"}
          /\ AfterLoad(r) = "getMe" => kind[r] = "token"
          /\ AfterLoad(r) = "read" => kind[r] = "discover"
      BY <2>7 DEF Loads, AfterLoad, Loaders, FileInv, Arrivals
    <3> QED BY <2>0, <2>1, <2>7, <3>1 DEF Loads
  <2>8. CASE Saves(r)
    BY <2>0, <2>1, <2>8 DEF Saves, Saved
  <2>9. CASE Commits(r)
    BY <2>0, <2>1, <2>9 DEF Commits
  <2>10. CASE Reopens(r)
    BY <2>0, <2>1, <2>10 DEF Reopens
  <2>11. CASE GetsMe(r)
    <3>1. CASE Goes(r, "lock")
      <4>1. RequestOk(r)'
        BY <2>0, <2>11, <3>1 DEF RequestOk, Goes, GetsMe
      <4> QED BY <2>0, <2>11, <3>1, <4>1, ConfigStep DEF GetsMe
    <3>2. CASE Goes(r, "done")
      BY <2>0, <2>1, <2>11, <3>2 DEF GetsMe
    <3> QED BY <2>11, <3>1, <3>2 DEF GetsMe
  <2>12. CASE ReadsEnv(r)
    <3>1. PICK place : Goes(r, place) /\ (place = "done" \/ (place = "getUpdates" /\ env.bot # None))
      BY <2>12 DEF ReadsEnv
    <3>2. RequestOk(r)'
      BY <2>0, <2>12, <3>1 DEF RequestOk, Goes, ReadsEnv
    <3> QED BY <2>0, <2>12, <3>1, <3>2, ConfigStep DEF ReadsEnv
  <2>13. CASE GetsUpdates(r)
    <3>1. CASE Goes(r, "done") /\ UNCHANGED found
      BY <2>0, <2>1, <2>13, <3>1 DEF GetsUpdates
    <3>2. CASE \E i \in Matches(r) : found' = [found EXCEPT ![r] = posted[i]] /\ Goes(r, "lock")
      <4>1. PICK i \in Matches(r) : found' = [found EXCEPT ![r] = posted[i]] /\ Goes(r, "lock")
        BY <3>2
      <4>2. posted[i] \in Message /\ posted[i].user # None
        BY <4>1, ElementOfSeq, LenProperties DEF Matches, ConfigInv
      <4>3. posted[i].chat # None
        BY <4>2, SetupAssumption DEF Message
      <4>4. found'[r] = posted[i]
        BY <4>1 DEF ConfigInv
      <4>5. RequestOk(r)'
        BY <2>0, <2>13, <4>1, <4>2, <4>3, <4>4 DEF RequestOk, Goes, GetsUpdates
      <4> QED BY <2>0, <2>13, <4>1, <4>5, ConfigStep DEF GetsUpdates
    <3> QED BY <2>13, <3>1, <3>2 DEF GetsUpdates
  <2>14. CASE Locks(r)
    <3>1. RequestOk(r)'
      BY <2>0, <2>14 DEF RequestOk, Goes, Locks
    <3> QED BY <2>0, <2>14, <3>1, ConfigStep DEF Locks
  <2>15. CASE Replaces(r)
    BY <2>15, ReplaceConfigures DEF Replaces
  <2>16. CASE WriteFails(r)
    <3>1. CASE UNCHANGED env
      BY <2>0, <2>1, <2>16, <3>1 DEF WriteFails, GivesUp
    <3>2. CASE env' = Updated(r, file[r])
      BY <2>16, <3>2, ReplaceConfigures DEF WriteFails, GivesUp
    <3> QED BY <2>16, <3>1, <3>2 DEF WriteFails
  <2>17. CASE IssuesCode(r)
    BY <2>0, <2>1, <2>17 DEF IssuesCode
  <2>18. CASE ClearsCode(r)
    <3>1. RequestOk(r)'
      BY <2>0, <2>18 DEF RequestOk, Goes, ClearsCode, Configured
    <3> QED BY <2>0, <2>18, <3>1, ConfigStep DEF ClearsCode
  <2>19. CASE Connects(r)
    <3>1. Configured
      BY <2>0, <2>19 DEF RequestOk, Connects
    <3> QED BY <2>0, <2>1, <2>19, <3>1 DEF Connects
  <2>20. CASE Ends(r)
    BY <2>0, <2>1, <2>20 DEF Ends
  <2> QED BY <1>5, <2>2, <2>3, <2>4, <2>5, <2>6, <2>7, <2>8, <2>9, <2>10, <2>11, <2>12, <2>13,
             <2>14, <2>15, <2>16, <2>17, <2>18, <2>19, <2>20 DEF Works
<1> QED BY <1>1, <1>2, <1>3, <1>4, <1>5 DEF Next

(* A provider is connected only when the file has its bot, its chat and    *)
(* its allowlist: views.py writes the file before it sets the provider,    *)
(* and what it writes is never less than what was there.                   *)
THEOREM SpecConnectedIsConfigured ==
    ASSUME StartsConfigured
    PROVE  Spec => []ConnectedIsConfigured
<1>1. Init => FileInv /\ ConfigInv
  BY FileInit, ConfigInit
<1>2. FileInv /\ ConfigInv /\ [Next]_vars => (FileInv /\ ConfigInv)'
  BY FileNext, ConfigNext
<1>3. ConfigInv => ConnectedIsConfigured
  BY DEF ConfigInv
<1> QED BY <1>1, <1>2, <1>3, PTL DEF Spec
==============================================================================
