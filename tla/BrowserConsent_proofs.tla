------------------------ MODULE BrowserConsent_proofs ------------------------
(***************************************************************************)
(* The safety invariants of BrowserConsent, and that no write undoes       *)
(* another, hold for every number of concurrent POSTs, of grants and of    *)
(* arrivals, and whichever stores fail.                                    *)
(*                                                                         *)
(* The layers of the inductive invariant:                                  *)
(*   TypeOK      the types;                                                *)
(*   ContentInv  a ciphertext's number determines what it seals, although  *)
(*               a restore brings an old number back, and no two claims    *)
(*               have one number;                                          *)
(*   PlaceInv    nobody passes the checks on a record with a consent under *)
(*               way, and only consents pass on one with a session;        *)
(*   OwnerInv    hence the record stays with the POST that claimed the     *)
(*               consent until it is completed or given back;              *)
(*   GrantInv    hence a grant is in force only while the record is        *)
(*               claimed or completed, only one is, and what is recorded   *)
(*               is that grant, unless the catch block of a completion in  *)
(*               doubt revoked it;                                         *)
(*   SignupInv   a registration, and a code per window, has its claim.     *)
(* The refinement of ConsentDecision adds NamedInv: a grant that is about  *)
(* to be created was never withdrawn.  RetryStaysPossible is inductive on  *)
(* top of the layers, as long as the stores answer.                        *)
(***************************************************************************)
EXTENDS BrowserConsent, FiniteSetTheorems, TLAPS

-----------------------------------------------------------------------------
Consents    == {"approve", "deny"}
Sending     == {"send", "writeSend"}
Registering == {"signup", "writeSignup"}
Consenting  == Try \union Catching

\* A POST that has passed the checks on what it read and may still write, and
\* one that has written its claim.
Past(x)    == pc[x] \notin {"idle", "read", "redirect"}
Claimer(x) == pc[x] \in Sending \union Registering \union Consenting

\* The claim it has written.
Wrote(x) ==
  LET raw == local[x].raw IN
  [raw EXCEPT !.ver = local[x].claimed,
              !.attempted = raw.attempted \/ pc[x] \in Registering,
              !.processing = raw.processing \/ pc[x] \in Consenting]

RawIsOld(x) ==
  Past(x) => /\ local[x].raw.ver <= seals
             /\ local[x].raw.ver = tx.ver => local[x].raw = tx

ClaimIsOld(x) ==
  Claimer(x) => /\ local[x].claimed <= seals
                /\ local[x].claimed = tx.ver => tx = Wrote(x)

SameRaw(x, y) ==
  Past(x) /\ Past(y) /\ local[x].raw.ver = local[y].raw.ver =>
    local[x].raw = local[y].raw

RawIsClaim(x, y) ==
  Past(x) /\ Claimer(y) /\ local[x].raw.ver = local[y].claimed =>
    local[x].raw = Wrote(y)

ClaimsDiffer(x, y) ==
  Claimer(x) /\ Claimer(y) /\ local[x].claimed = local[y].claimed => x = y

ContentInv ==
  /\ tx.ver <= seals
  /\ \A x \in Post : RawIsOld(x) /\ ClaimIsOld(x)
  /\ \A x, y \in Post : SameRaw(x, y) /\ RawIsClaim(x, y) /\ ClaimsDiffer(x, y)

-----------------------------------------------------------------------------
Placed(x) ==
  /\ Past(x) => /\ ~local[x].raw.processing
                /\ local[x].op \in Consents <=> local[x].raw.session
                /\ local[x].op \in Consents => ~local[x].raw.completed
  /\ pc[x] \in Consenting \union {"claimConsent"} => local[x].op \in Consents
  /\ pc[x] \in Signing => local[x].op \notin Consents
  /\ pc[x] = "claimSignup" => ~local[x].raw.attempted

PlaceInv ==
  /\ tx.processing => tx.session /\ ~tx.completed
  /\ \A x \in Post : Placed(x)

Owns(x) ==
  /\ pc[x] \in Try => tx.ver = local[x].claimed
  /\ pc[x] \in Catching => tx.ver = local[x].claimed \/ tx.completed
  /\ pc[x] = "redirect" => tx.completed /\ tx.code = local[x].grant

OwnerInv == \A x \in Post : Owns(x)

-----------------------------------------------------------------------------
NoneActive == \A g \in GrantId : grants[g] # "active"

\* A grant that is named is the POST's own; it is in force from its creation,
\* and its code is stored from then on.
Grants(x) ==
  /\ local[x].grant # NoGrant => grants[local[x].grant] # "none"
  /\ pc[x] \in {"read", "claimConsent", "verify"} => local[x].grant = NoGrant
  /\ pc[x] \in {"create", "issue", "revoke"} => local[x].grant # NoGrant
  /\ pc[x] = "issue" => grants[local[x].grant] = "active"
  /\ pc[x] = "complete" /\ local[x].grant # NoGrant =>
       grants[local[x].grant] = "active" /\ local[x].grant \in codes
  /\ pc[x] \in {"verify", "create"} => NoneActive
  /\ pc[x] = "restore" /\ tx.ver = local[x].claimed => NoneActive
  /\ pc[x] \in Consenting /\ tx.ver = local[x].claimed =>
       \A g \in GrantId : grants[g] = "active" => g = local[x].grant
  /\ pc[x] \in Catching /\ tx.completed /\ local[x].grant # NoGrant
       /\ tx.code = local[x].grant => doubtful

GrantsDiffer(x, y) ==
  /\ pc[x] \in Consenting /\ pc[y] \in Consenting
  /\ local[x].grant # NoGrant /\ local[x].grant = local[y].grant
  => x = y

\* What is recorded has its code, and is in force or in doubt; nothing else is
\* in force.
Recorded ==
  tx.completed =>
    /\ \A g \in GrantId : grants[g] = "active" => g = tx.code
    /\ tx.code # NoGrant =>
         /\ tx.code \in codes /\ grants[tx.code] # "none"
         /\ grants[tx.code] = "active" \/ doubtful

GrantInv ==
  /\ OneGrantInForce
  /\ NoneActive \/ tx.processing \/ tx.completed
  /\ Recorded
  /\ \A x \in Post : Grants(x)
  /\ \A x, y \in Post : GrantsDiffer(x, y)

-----------------------------------------------------------------------------
Senders == {x \in Post : pc[x] = "send"}

SignupInv ==
  /\ signups <= 1
  /\ signups > 0 => tx.attempted
  /\ \A x \in Post : pc[x] = "signup" => signups = 0 /\ tx.attempted
  /\ \A x, y \in Post : pc[x] = "signup" /\ pc[y] = "signup" => x = y

MailInv ==
  /\ mails + Cardinality(Senders) <= windows + (IF cooling THEN 1 ELSE 0)
  /\ \A x \in Post :
       pc[x] = "claimSend" /\ local[x].raw.ver = tx.ver => ~cooling

IInv ==
  /\ TypeOK /\ ContentInv /\ PlaceInv /\ OwnerInv /\ GrantInv
  /\ SignupInv /\ MailInv

OthersStay(x) ==
  \A y \in Post \ {x} : pc'[y] = pc[y] /\ local'[y] = local[y]

\* What the record says for good.
Lasts ==
  /\ tx.attempted => tx'.attempted
  /\ tx.completed => tx'.completed /\ tx'.code = tx.code
  /\ tx.session => tx'.session \/ tx'.completed

USE DEF Consents, Sending, Registering, Consenting, Signing, Try, Catching

-----------------------------------------------------------------------------
(***************************************************************************)
(* What the small steps do to the POST that takes them.                    *)
(***************************************************************************)

\* The idle values have their type.
LEMMA NoLocalsType == NoLocals \in Locals /\ FreshTx \in Tx
  BY DEF NoLocals, FreshTx, Locals, Tx, Operations

\* A reply frees the place.
LEMMA ReplyShape ==
  ASSUME TypeOK, NEW x \in Post, Reply(x)
  PROVE  /\ OthersStay(x) /\ pc'[x] = "idle" /\ local'[x] = NoLocals
         /\ pc' \in [Post -> Pc] /\ local' \in [Post -> Locals]
  BY NoLocalsType DEF TypeOK, Reply, Goto, OthersStay, Pc

\* Going on keeps the local variables.
LEMMA ProceedShape ==
  ASSUME TypeOK, NEW x \in Post, NEW p \in Pc, Proceed(x, p)
  PROVE  /\ OthersStay(x) /\ pc'[x] = p /\ local' = local
         /\ pc' \in [Post -> Pc] /\ local' \in [Post -> Locals]
  BY DEF TypeOK, Proceed, Goto, OthersStay

\* A step that assigns to one POST's place and variables.
LEMMA AssignShape ==
  ASSUME TypeOK, NEW x \in Post, NEW p \in Pc, NEW l \in Locals,
         Goto(x, p), local' = [local EXCEPT ![x] = l]
  PROVE  /\ OthersStay(x) /\ pc'[x] = p /\ local'[x] = l
         /\ pc' \in [Post -> Pc] /\ local' \in [Post -> Locals]
  BY DEF TypeOK, Goto, OthersStay

\* A POST's variables, and each after an assignment, have their type.
LEMMA LocalTypes ==
  ASSUME TypeOK, NEW x \in Post
  PROVE  /\ local[x] \in Locals /\ local[x].raw \in Tx
         /\ local[x].raw.ver \in Nat /\ local[x].claimed \in Nat
         /\ local[x].ok \in BOOLEAN /\ local[x].grant \in GrantId \union {NoGrant}
         /\ local[x].op \in Operations
         /\ tx \in Tx /\ tx.ver \in Nat /\ seals \in Nat
  BY DEF TypeOK, Locals, Tx

\* A record that is sealed again differs in its number alone.
LEMMA SealedShape ==
  ASSUME TypeOK, NEW v, NEW next \in Tx, Cas(v, next)
  PROVE  /\ tx' = [next EXCEPT !.ver = seals + 1]
         /\ tx' \in Tx /\ tx'.ver = seals + 1 /\ seals' = seals + 1
         /\ tx.ver = v /\ seals' \in Nat
         /\ tx'.session = next.session /\ tx'.attempted = next.attempted
         /\ tx'.processing = next.processing /\ tx'.completed = next.completed
         /\ tx'.code = next.code
  <1>1. seals + 1 \in Nat /\ seals \in Nat
    BY DEF TypeOK
  <1>2. /\ tx' = [next EXCEPT !.ver = seals + 1] /\ tx.ver = v
        /\ seals' = seals + 1
    BY DEF Cas
  <1> QED BY <1>1, <1>2 DEF Tx

-----------------------------------------------------------------------------
(***************************************************************************)
(* What a step that leaves the record alone preserves.                     *)
(***************************************************************************)

\* A POST that makes no new claim and reads nothing new.
LEMMA ContentMove ==
  ASSUME ContentInv, NEW x \in Post, OthersStay(x), UNCHANGED <<tx, seals>>,
         Past(x)' => Past(x) /\ local'[x].raw = local[x].raw,
         Claimer(x)' => /\ Claimer(x)
                        /\ local'[x].claimed = local[x].claimed
                        /\ Wrote(x)' = Wrote(x)
  PROVE  ContentInv'
  <1>1. \A y \in Post : Past(y)' => Past(y) /\ local'[y].raw = local[y].raw
    BY DEF OthersStay, Past
  <1>2. ASSUME NEW y \in Post, Claimer(y)'
        PROVE  /\ Claimer(y) /\ local'[y].claimed = local[y].claimed
               /\ Wrote(y)' = Wrote(y)
    <2>1. CASE y = x
      BY <1>2, <2>1
    <2>2. CASE y # x
      BY <1>2, <2>2 DEF OthersStay, Claimer, Wrote
    <2> QED BY <2>1, <2>2
  <1> QED BY <1>1, <1>2
          DEF ContentInv, RawIsOld, ClaimIsOld, SameRaw, RawIsClaim, ClaimsDiffer

\* A POST that reads the record knows what it seals.
LEMMA ContentRead ==
  ASSUME ContentInv, NEW x \in Post, OthersStay(x), UNCHANGED <<tx, seals>>,
         local'[x].raw = tx, ~Claimer(x)'
  PROVE  ContentInv'
  <1>1. \A y \in Post \ {x} : /\ Past(y)' = Past(y)
                              /\ local'[y].raw = local[y].raw
    BY DEF OthersStay, Past
  <1>2. ASSUME NEW y \in Post, Claimer(y)'
        PROVE  /\ y # x /\ Claimer(y) /\ local'[y].claimed = local[y].claimed
               /\ Wrote(y)' = Wrote(y)
    BY <1>2 DEF OthersStay, Claimer, Wrote
  <1>3. /\ tx' = tx /\ seals' = seals /\ tx.ver <= seals
        /\ \A y \in Post : RawIsOld(y)' /\ ClaimIsOld(y)'
    BY <1>1, <1>2 DEF ContentInv, RawIsOld, ClaimIsOld
  <1>4. ASSUME NEW y \in Post, NEW z \in Post
        PROVE  SameRaw(y, z)'
    BY <1>1 DEF ContentInv, RawIsOld, SameRaw
  <1>5. ASSUME NEW y \in Post, NEW z \in Post
        PROVE  RawIsClaim(y, z)' /\ ClaimsDiffer(y, z)'
    BY <1>1, <1>2 DEF ContentInv, RawIsClaim, ClaimIsOld, ClaimsDiffer
  <1> QED BY <1>3, <1>4, <1>5 DEF ContentInv

\* What a freshly sealed record seals is known to its writer alone.
LEMMA ContentWrite ==
  ASSUME TypeOK, ContentInv, NEW x \in Post, OthersStay(x),
         seals' = seals + 1, tx'.ver = seals + 1,
         Past(x)' => Past(x) /\ local'[x].raw = local[x].raw,
         Claimer(x)' =>
           \/ local'[x].claimed = seals + 1 /\ tx' = Wrote(x)'
           \/ /\ Claimer(x) /\ local'[x].claimed = local[x].claimed
              /\ Wrote(x)' = Wrote(x)
  PROVE  ContentInv'
  <1>1. \A y \in Post : Past(y)' => Past(y) /\ local'[y].raw = local[y].raw
    BY DEF OthersStay, Past
  <1>2. ASSUME NEW y \in Post, Claimer(y)'
        PROVE  \/ y = x /\ local'[y].claimed = seals + 1 /\ tx' = Wrote(y)'
               \/ /\ Claimer(y) /\ local'[y].claimed = local[y].claimed
                  /\ Wrote(y)' = Wrote(y)
    <2>1. CASE y = x
      BY <1>2, <2>1
    <2>2. CASE y # x
      BY <1>2, <2>2 DEF OthersStay, Claimer, Wrote
    <2> QED BY <2>1, <2>2
  <1>3. \A y \in Post : /\ local[y].raw.ver \in Nat /\ local[y].claimed \in Nat
                        /\ seals \in Nat
    BY LocalTypes
  <1>4. ASSUME NEW y \in Post PROVE RawIsOld(y)' /\ ClaimIsOld(y)'
    BY <1>1, <1>2, <1>3 DEF ContentInv, RawIsOld, ClaimIsOld
  <1>5. ASSUME NEW y \in Post, NEW z \in Post PROVE SameRaw(y, z)'
    BY <1>1 DEF ContentInv, SameRaw
  <1>6. ASSUME NEW y \in Post, NEW z \in Post PROVE RawIsClaim(y, z)'
    BY <1>1, <1>2, <1>3 DEF ContentInv, RawIsClaim, RawIsOld
  <1>7. ASSUME NEW y \in Post, NEW z \in Post PROVE ClaimsDiffer(y, z)'
    BY <1>2, <1>3 DEF ContentInv, ClaimsDiffer, ClaimIsOld
  <1>8. (tx.ver <= seals)'
    BY <1>3 DEF TypeOK
  <1> QED BY <1>4, <1>5, <1>6, <1>7, <1>8 DEF ContentInv

-----------------------------------------------------------------------------
(***************************************************************************)
(* What a step of one POST preserves of the other layers.                  *)
(***************************************************************************)

\* The other POSTs stay placed.
LEMMA PlaceKept ==
  ASSUME PlaceInv, NEW x \in Post, OthersStay(x), Placed(x)',
         tx'.processing => tx'.session /\ ~tx'.completed
  PROVE  PlaceInv'
  <1>1. ASSUME NEW y \in Post \ {x} PROVE Placed(y)'
    <2>1. pc'[y] = pc[y] /\ local'[y] = local[y] /\ Placed(y)
      BY DEF OthersStay, PlaceInv
    <2> QED BY <2>1 DEF Placed, Past
  <1> QED BY <1>1 DEF PlaceInv

\* The POST whose claim or reading the record is.
Holds(x) ==
  \/ Past(x) /\ tx.ver = local[x].raw.ver
  \/ Claimer(x) /\ tx.ver = local[x].claimed

\* The fields of a claim.
LEMMA WroteFields ==
  ASSUME TypeOK, NEW x \in Post
  PROVE  LET raw == local[x].raw IN
         /\ Wrote(x) \in Tx /\ Wrote(x).ver = local[x].claimed
         /\ Wrote(x).attempted <=> raw.attempted \/ pc[x] \in Registering
         /\ Wrote(x).processing <=> raw.processing \/ pc[x] \in Consenting
         /\ Wrote(x).session = raw.session /\ Wrote(x).email = raw.email
         /\ Wrote(x).completed = raw.completed /\ Wrote(x).code = raw.code
  <1>1. local[x].raw \in Tx /\ local[x].claimed \in Nat
    BY LocalTypes
  <1>2. PICK a \in BOOLEAN, p \in BOOLEAN :
          /\ Wrote(x) = [local[x].raw EXCEPT !.ver = local[x].claimed,
                                             !.attempted = a, !.processing = p]
          /\ a <=> local[x].raw.attempted \/ pc[x] \in Registering
          /\ p <=> local[x].raw.processing \/ pc[x] \in Consenting
    BY DEF Wrote
  <1>3. /\ Wrote(x) \in Tx /\ Wrote(x).ver = local[x].claimed
        /\ Wrote(x).attempted = a /\ Wrote(x).processing = p
        /\ Wrote(x).session = local[x].raw.session
        /\ Wrote(x).email = local[x].raw.email
        /\ Wrote(x).completed = local[x].raw.completed
        /\ Wrote(x).code = local[x].raw.code
    BY <1>1, <1>2 DEF Tx
  <1> QED BY <1>2, <1>3

\* Only the POST that claimed the consent can write the record.
LEMMA OwnerExcludes ==
  ASSUME TypeOK, ContentInv, PlaceInv, NEW x \in Post, NEW y \in Post,
         Holds(x), x # y, pc[y] \in Consenting
  PROVE  tx.ver # local[y].claimed
  <1> SUFFICES ASSUME tx.ver = local[y].claimed PROVE FALSE
    OBVIOUS
  <1>1. Claimer(y)
    BY DEF Claimer
  <1>2. tx = Wrote(y)
    BY <1>1 DEF ContentInv, ClaimIsOld
  <1>3. CASE Past(x) /\ tx.ver = local[x].raw.ver
    <2>1. local[x].raw = tx
      BY <1>3 DEF ContentInv, RawIsOld
    <2>2. ~local[x].raw.processing
      BY <1>3 DEF PlaceInv, Placed
    <2>3. Wrote(y).processing
      BY WroteFields
    <2> QED BY <1>2, <2>1, <2>2, <2>3
  <1>4. CASE Claimer(x) /\ tx.ver = local[x].claimed
    BY <1>1, <1>4 DEF ContentInv, ClaimsDiffer
  <1> QED BY <1>3, <1>4 DEF Holds

\* A step that leaves the record alone leaves it to its owner.
LEMMA OwnerMove ==
  ASSUME OwnerInv, NEW x \in Post, OthersStay(x), Owns(x)', tx' = tx
  PROVE  OwnerInv'
  <1>1. ASSUME NEW y \in Post \ {x} PROVE Owns(y)'
    <2>1. pc'[y] = pc[y] /\ local'[y] = local[y] /\ Owns(y)
      BY DEF OthersStay, OwnerInv
    <2> QED BY <2>1 DEF Owns
  <1> QED BY <1>1 DEF OwnerInv

\* So does a write of the POST it belongs to.
LEMMA OwnerWrite ==
  ASSUME TypeOK, ContentInv, PlaceInv, OwnerInv, NEW x \in Post, OthersStay(x),
         Owns(x)', Holds(x), Lasts
  PROVE  OwnerInv'
  <1>1. ASSUME NEW y \in Post \ {x} PROVE Owns(y)'
    <2>1. pc'[y] = pc[y] /\ local'[y] = local[y] /\ Owns(y)
      BY DEF OthersStay, OwnerInv
    <2>2. pc[y] \in Consenting => tx.ver # local[y].claimed
      BY OwnerExcludes
    <2> QED BY <2>1, <2>2 DEF Owns, Lasts
  <1> QED BY <1>1 DEF OwnerInv

\* A POST that comes to, or stays at, a consent names no new grant there.
NamesNone(x) ==
  pc'[x] \in Consenting =>
    \/ local'[x].grant = NoGrant
    \/ pc[x] \in Consenting /\ local'[x].grant = local[x].grant

\* What it records, if anything, is the grant it completes.
RecordsOwn(x) ==
  tx'.completed =>
    tx.completed \/ (pc[x] = "complete" /\ tx'.code = local[x].grant)

\* A step that changes no grant, and whose POST names none, keeps each grant
\* its one owner's.
LEMMA GrantKept ==
  ASSUME OwnerInv, GrantInv, NEW x \in Post, OthersStay(x),
         UNCHANGED <<grants, codes>>, doubtful => doubtful',
         NamesNone(x), RecordsOwn(x), Lasts, Grants(x)',
         tx.processing \/ tx.completed => tx'.processing \/ tx'.completed,
         \A y \in Post \ {x} :
           pc[y] \in Consenting /\ tx'.ver = local[y].claimed => tx' = tx
  PROVE  GrantInv'
  <1>1. ASSUME NEW y \in Post \ {x} PROVE Grants(y)'
    <2>1. pc'[y] = pc[y] /\ local'[y] = local[y] /\ Grants(y)
      BY DEF OthersStay, GrantInv
    <2>2. pc[y] \in Consenting /\ tx'.ver = local[y].claimed => tx' = tx
      OBVIOUS
    <2>3. ASSUME pc[y] \in Catching, tx'.completed, local[y].grant # NoGrant,
                 tx'.code = local[y].grant
          PROVE  doubtful'
      <3>1. tx.completed \/ (pc[x] = "complete" /\ tx'.code = local[x].grant)
        BY <2>3 DEF RecordsOwn
      <3>2. CASE tx.completed
        BY <2>1, <2>3, <3>2 DEF Lasts, Grants
      <3>3. CASE pc[x] = "complete" /\ tx'.code = local[x].grant
        BY <2>3, <3>3 DEF GrantInv, GrantsDiffer
      <3> QED BY <3>1, <3>2, <3>3
    <2> QED BY <2>1, <2>2, <2>3 DEF Grants, NoneActive
  <1>2. ASSUME NEW y \in Post, NEW z \in Post PROVE GrantsDiffer(y, z)'
    BY DEF OthersStay, GrantInv, GrantsDiffer, NamesNone
  <1>3. OneGrantInForce' /\ (NoneActive \/ tx.processing \/ tx.completed)'
    BY DEF GrantInv, OneGrantInForce, NoneActive
  <1>4. Recorded'
    <2>1. CASE tx.completed
      BY <2>1 DEF GrantInv, Recorded, Lasts
    <2>2. CASE pc[x] = "complete" /\ tx'.code = local[x].grant
      <3>1. tx.ver = local[x].claimed /\ Grants(x)
        BY <2>2 DEF OwnerInv, Owns, GrantInv
      <3> QED BY <2>2, <3>1 DEF Grants, Recorded
    <2> QED BY <2>1, <2>2 DEF RecordsOwn, Recorded
  <1> QED BY <1>1, <1>2, <1>3, <1>4 DEF GrantInv

\* A step that asks for no registration keeps the one there is.
LEMMA SignupKept ==
  ASSUME SignupInv, NEW x \in Post, OthersStay(x), signups' = signups,
         pc'[x] # "signup", tx.attempted => tx'.attempted
  PROVE  SignupInv'
  BY DEF SignupInv, OthersStay

\* The claims to send a code are finitely many.
LEMMA SendersFinite ==
  ASSUME NEW S \in SUBSET Post
  PROVE  IsFiniteSet(S) /\ Cardinality(S) \in Nat
  <1>1. IsFiniteSet(S)
    BY ConstantsOK, FS_Subset
  <1> QED BY <1>1, FS_CardinalityType

\* A step that asks for no code keeps within the windows.
LEMMA MailKept ==
  ASSUME TypeOK, MailInv, NEW x \in Post, OthersStay(x), pc'[x] # "send",
         UNCHANGED <<mails, windows, cooling>>,
         \A y \in Post : pc'[y] = "claimSend" /\ local'[y].raw.ver = tx'.ver =>
                          \/ pc[y] = "claimSend" /\ local[y].raw.ver = tx.ver
                          \/ ~cooling
  PROVE  MailInv'
  <1>1. Senders \in SUBSET Post /\ Senders' \in SUBSET Post
    BY DEF Senders
  <1>2. Senders' \subseteq Senders
    BY DEF Senders, OthersStay
  <1>3. Cardinality(Senders') <= Cardinality(Senders)
    BY <1>1, <1>2, SendersFinite, FS_Subset
  <1>4. Cardinality(Senders) \in Nat /\ Cardinality(Senders') \in Nat
    BY <1>1, SendersFinite
  <1>5. mails \in Nat /\ windows \in Nat
    BY DEF TypeOK
  <1>6. mails + Cardinality(Senders) <= windows + (IF cooling THEN 1 ELSE 0)
    BY DEF MailInv
  <1>7. mails + Cardinality(Senders') <= windows + (IF cooling THEN 1 ELSE 0)
    BY <1>3, <1>4, <1>5, <1>6
  <1>8. \A y \in Post :
          pc'[y] = "claimSend" /\ local'[y].raw.ver = tx'.ver => ~cooling
    BY DEF MailInv
  <1> QED BY <1>7, <1>8 DEF MailInv

-----------------------------------------------------------------------------
(***************************************************************************)
(* The steps.                                                              *)
(***************************************************************************)

\* The invariant holds when the transaction has just been made.
LEMMA InitInv == Init => IInv
  <1> SUFFICES ASSUME Init PROVE IInv
    OBVIOUS
  <1>1. /\ pc = [x \in Post |-> "idle"] /\ local = [x \in Post |-> NoLocals]
        /\ tx = FreshTx /\ seals = 0 /\ grants = [g \in GrantId |-> "none"]
        /\ signups = 0 /\ mails = 0 /\ windows = 0 /\ cooling = FALSE
    BY DEF Init
  <1>2. TypeOK
    BY NoLocalsType DEF Init, TypeOK, Pc
  <1>3. ContentInv
    BY <1>1 DEF ContentInv, RawIsOld, ClaimIsOld, SameRaw, RawIsClaim,
                ClaimsDiffer, Past, Claimer, FreshTx
  <1>4. PlaceInv /\ OwnerInv
    BY <1>1 DEF PlaceInv, Placed, Past, OwnerInv, Owns, FreshTx
  <1>5. GrantInv
    BY <1>1, ConstantsOK DEF GrantInv, Grants, GrantsDiffer, NoneActive,
                             Recorded, OneGrantInForce, NoLocals, FreshTx
  <1>6. SignupInv
    BY <1>1 DEF SignupInv
  <1>7. MailInv
    <2>1. Senders = {}
      BY <1>1 DEF Senders
    <2> QED BY <1>1, <2>1, FS_EmptySet DEF MailInv
  <1> QED BY <1>2, <1>3, <1>4, <1>5, <1>6, <1>7 DEF IInv

\* A step of one POST that changes nothing the others see.
LEMMA MoveStep ==
  ASSUME IInv, NEW x \in Post, OthersStay(x),
         pc' \in [Post -> Pc], local' \in [Post -> Locals],
         UNCHANGED <<tx, txLive, cooling, seals, grants, codes>>,
         UNCHANGED <<mails, windows, signups, doubtful>>, arrived' \in Nat,
         Past(x)' => Past(x) /\ local'[x].raw = local[x].raw,
         Claimer(x)' => /\ Claimer(x)
                        /\ local'[x].claimed = local[x].claimed
                        /\ Wrote(x)' = Wrote(x),
         NamesNone(x), Placed(x)', Owns(x)', Grants(x)',
         pc'[x] \notin {"send", "signup", "claimSend"}
  PROVE  IInv'
  <1> USE DEF IInv
  <1>1. TypeOK'
    BY DEF TypeOK
  <1>2. ContentInv'
    BY ContentMove
  <1>3. PlaceInv'
    <2>1. tx'.processing => tx'.session /\ ~tx'.completed
      BY DEF PlaceInv
    <2> QED BY <2>1, PlaceKept
  <1>4. OwnerInv'
    BY OwnerMove
  <1>5. GrantInv'
    BY GrantKept DEF RecordsOwn, Lasts
  <1>6. SignupInv'
    BY SignupKept
  <1>7. MailInv'
    <2>1. \A y \in Post :
            pc'[y] = "claimSend" /\ local'[y].raw.ver = tx'.ver =>
              pc[y] = "claimSend" /\ local[y].raw.ver = tx.ver
      BY DEF OthersStay
    <2> QED BY <2>1, MailKept
  <1> QED BY <1>1, <1>2, <1>3, <1>4, <1>5, <1>6, <1>7

\* A POST may end anywhere.
LEMMA ReplyStep ==
  ASSUME IInv, NEW x \in Post, Reply(x),
         UNCHANGED <<tx, txLive, cooling, seals, grants, codes>>,
         UNCHANGED <<mails, windows, signups, doubtful, arrived>>
  PROVE  IInv'
  <1>1. /\ OthersStay(x) /\ pc'[x] = "idle" /\ local'[x] = NoLocals
        /\ pc' \in [Post -> Pc] /\ local' \in [Post -> Locals]
    BY ReplyShape DEF IInv
  <1>2. ~Past(x)' /\ ~Claimer(x)' /\ local'[x].grant = NoGrant
    BY <1>1 DEF Past, Claimer, NoLocals
  <1>3. Placed(x)' /\ Owns(x)' /\ Grants(x)' /\ NamesNone(x)
    BY <1>1, <1>2 DEF Placed, Owns, Grants, NamesNone
  <1>4. arrived' \in Nat
    BY DEF IInv, TypeOK
  <1> QED BY <1>1, <1>2, <1>3, <1>4, MoveStep

\* The catch block begins: the record is still the POST's.
LEMMA CatchStep ==
  ASSUME IInv, NEW x \in Post, pc[x] \in Try, Catch(x),
         UNCHANGED <<tx, txLive, cooling, seals, grants, codes>>,
         UNCHANGED <<mails, windows, signups, doubtful, arrived>>
  PROVE  IInv'
  <1> USE DEF IInv
  <1>1. PICK p \in Catching : /\ Proceed(x, p)
                             /\ p = IF local[x].grant = NoGrant
                                    THEN "restore" ELSE "revoke"
    BY DEF Catch
  <1>2. /\ OthersStay(x) /\ pc'[x] = p /\ local' = local
        /\ pc' \in [Post -> Pc] /\ local' \in [Post -> Locals]
    BY <1>1, ProceedShape DEF Pc
  <1>3. Past(x) /\ Claimer(x) /\ Wrote(x)' = Wrote(x)
    BY <1>2 DEF Past, Claimer, Wrote
  <1>4. Placed(x)'
    BY <1>2 DEF PlaceInv, Placed, Past
  <1>5. Owns(x)'
    BY <1>2 DEF OwnerInv, Owns
  <1>6. Grants(x)' /\ NamesNone(x)
    <2>1. tx.ver = local[x].claimed /\ Grants(x)
      BY DEF OwnerInv, Owns, GrantInv
    <2>2. p = "restore" => NoneActive
      BY <1>1, <2>1, ConstantsOK DEF Grants, NoneActive
    <2>3. ~tx.completed
      <3>1. tx = Wrote(x)
        BY <1>3, <2>1 DEF ContentInv, ClaimIsOld
      <3>2. tx.processing
        BY <3>1, WroteFields
      <3> QED BY <3>2 DEF PlaceInv
    <2> QED BY <1>1, <1>2, <2>1, <2>2, <2>3 DEF Grants, NoneActive, NamesNone
  <1>7. arrived' \in Nat
    BY DEF TypeOK
  <1> QED BY <1>2, <1>3, <1>4, <1>5, <1>6, <1>7, MoveStep

\* A POST arrives with its form.
LEMMA ArriveInv ==
  ASSUME IInv, NEW x \in Post, NEW op \in Operations, Arrive(x, op)
  PROVE  IInv'
  <1>1. [NoLocals EXCEPT !.op = op] \in Locals
    BY NoLocalsType DEF Locals
  <1>2. /\ OthersStay(x) /\ pc'[x] = "read"
        /\ local'[x] = [NoLocals EXCEPT !.op = op]
        /\ pc' \in [Post -> Pc] /\ local' \in [Post -> Locals]
    BY <1>1, AssignShape DEF Arrive, IInv, Pc
  <1>3. ~Past(x)' /\ ~Claimer(x)' /\ local'[x].grant = NoGrant
    BY <1>2 DEF Past, Claimer, NoLocals
  <1>4. Placed(x)' /\ Owns(x)' /\ Grants(x)' /\ NamesNone(x)
    BY <1>2, <1>3 DEF Placed, Owns, Grants, NamesNone
  <1>5. arrived' \in Nat
    BY DEF IInv, TypeOK, Arrive
  <1>6. /\ UNCHANGED <<tx, txLive, cooling, seals, grants, codes>>
        /\ UNCHANGED <<mails, windows, signups, doubtful>>
    BY DEF Arrive
  <1> QED BY <1>2, <1>3, <1>4, <1>5, <1>6, MoveStep

\* A POST passes the checks on what it reads.
LEMMA ReadInv == ASSUME IInv, NEW x \in Post, Read(x) PROVE IInv'
  <1> USE DEF IInv
  <1>0. /\ UNCHANGED <<tx, txLive, cooling, seals, grants, codes>>
        /\ UNCHANGED <<mails, windows, signups, doubtful, arrived>>
    BY DEF Read
  <1>1. CASE Reply(x)
    BY <1>0, <1>1, ReplyStep
  <1>2. CASE ~Reply(x)
    <2>1. PICK p \in {"claimSend", "claimSignup", "login", "claimConsent"} :
            /\ Goto(x, p)
            /\ local' = [local EXCEPT ![x].raw = tx]
            /\ ~tx.processing
            /\ local[x].op \in Consents <=> p = "claimConsent"
            /\ tx.session <=> p = "claimConsent"
            /\ p = "claimConsent" => ~tx.completed
            /\ p = "claimSend" => ~cooling
            /\ p = "claimSignup" => ~tx.attempted
      BY <1>2 DEF Read, MaySend, MayRegister, MayConsent, PlaceInv
    <2>2. /\ local[x] \in Locals /\ [local[x] EXCEPT !.raw = tx] \in Locals
          /\ local' = [local EXCEPT ![x] = [local[x] EXCEPT !.raw = tx]]
      BY <2>1, LocalTypes DEF Locals, TypeOK
    <2>3. /\ OthersStay(x) /\ pc'[x] = p
          /\ local'[x] = [local[x] EXCEPT !.raw = tx]
          /\ pc' \in [Post -> Pc] /\ local' \in [Post -> Locals]
      BY <2>1, <2>2, AssignShape DEF Pc
    <2>4. /\ local'[x].raw = tx /\ local'[x].op = local[x].op
          /\ local'[x].grant = local[x].grant
      BY <2>2, <2>3 DEF Locals
    <2>5. pc[x] = "read" /\ local[x].grant = NoGrant
      BY DEF Read, GrantInv, Grants
    <2>6. TypeOK'
      BY <1>0, <2>3 DEF TypeOK
    <2>7. ContentInv'
      BY <1>0, <2>3, <2>4, ContentRead DEF Claimer
    <2>8. PlaceInv'
      <3>1. Placed(x)'
        BY <2>1, <2>3, <2>4 DEF Placed
      <3>2. tx'.processing => tx'.session /\ ~tx'.completed
        BY <1>0 DEF PlaceInv
      <3> QED BY <2>3, <3>1, <3>2, PlaceKept
    <2>9. OwnerInv'
      BY <1>0, <2>3, OwnerMove DEF Owns
    <2>10. GrantInv'
      <3>1. Grants(x)' /\ NamesNone(x)
        BY <2>3, <2>4, <2>5 DEF Grants, NamesNone
      <3>2. RecordsOwn(x) /\ Lasts
        BY <1>0 DEF RecordsOwn, Lasts
      <3> QED BY <1>0, <2>3, <3>1, <3>2, GrantKept
    <2>11. SignupInv'
      BY <1>0, <2>3, SignupKept
    <2>12. MailInv'
      <3>1. \A y \in Post :
              pc'[y] = "claimSend" /\ local'[y].raw.ver = tx'.ver =>
                \/ pc[y] = "claimSend" /\ local[y].raw.ver = tx.ver
                \/ ~cooling
        BY <1>0, <2>1, <2>3 DEF OthersStay
      <3> QED BY <1>0, <2>3, <3>1, MailKept
    <2> QED BY <2>6, <2>7, <2>8, <2>9, <2>10, <2>11, <2>12
  <1> QED BY <1>1, <1>2

\* A repeated consent goes where the record says.
LEMMA ReplayInv == ASSUME IInv, NEW x \in Post, Replay(x) PROVE IInv'
  <1> USE DEF IInv
  <1>0. /\ UNCHANGED <<tx, txLive, cooling, seals, grants, codes>>
        /\ UNCHANGED <<mails, windows, signups, doubtful, arrived>>
        /\ tx.completed
    BY DEF Replay
  <1> DEFINE l == [local[x] EXCEPT !.grant = tx.code]
  <1>1. /\ l \in Locals /\ l.grant = tx.code
        /\ tx.code \in GrantId \union {NoGrant}
    BY LocalTypes DEF Locals, Tx
  <1>2. /\ local' = [local EXCEPT ![x] = l] /\ Goto(x, "redirect")
        /\ "redirect" \in Pc
    BY DEF Replay, TypeOK, Pc
  <1> HIDE DEF l
  <1>3. /\ OthersStay(x) /\ pc'[x] = "redirect" /\ local'[x] = l
        /\ pc' \in [Post -> Pc] /\ local' \in [Post -> Locals]
    BY <1>1, <1>2, AssignShape
  <1>4. ~Past(x)' /\ ~Claimer(x)' /\ NamesNone(x)
    BY <1>3 DEF Past, Claimer, NamesNone
  <1>5. Placed(x)' /\ Owns(x)'
    BY <1>0, <1>1, <1>3, <1>4 DEF Placed, Owns
  <1>6. Grants(x)'
    BY <1>0, <1>1, <1>3 DEF GrantInv, Recorded, Grants
  <1>7. arrived' \in Nat
    BY <1>0 DEF TypeOK
  <1> QED BY <1>0, <1>3, <1>4, <1>5, <1>6, <1>7, MoveStep

-----------------------------------------------------------------------------
(***************************************************************************)
(* The steps that write the record.                                        *)
(***************************************************************************)

\* A POST that holds the record by what it read knows all of it, and by its
\* claim too.
LEMMA HeldRecord ==
  ASSUME IInv, NEW x \in Post
  PROVE  /\ Past(x) /\ tx.ver = local[x].raw.ver => tx = local[x].raw
         /\ Claimer(x) /\ tx.ver = local[x].claimed => tx = Wrote(x)
  BY DEF IInv, ContentInv, RawIsOld, ClaimIsOld

\* What a write by the POST that holds the record preserves.
LEMMA WriteStep ==
  ASSUME IInv, NEW x \in Post, OthersStay(x),
         seals' = seals + 1, tx'.ver = seals + 1,
         Past(x)' => Past(x) /\ local'[x].raw = local[x].raw,
         Claimer(x)' =>
           \/ local'[x].claimed = seals + 1 /\ tx' = Wrote(x)'
           \/ /\ Claimer(x) /\ local'[x].claimed = local[x].claimed
              /\ Wrote(x)' = Wrote(x),
         Holds(x), Lasts,
         tx'.processing => tx'.session /\ ~tx'.completed,
         tx.processing \/ tx.completed => tx'.processing \/ tx'.completed,
         UNCHANGED <<grants, codes>>, doubtful => doubtful',
         NamesNone(x), RecordsOwn(x), Placed(x)', Owns(x)', Grants(x)'
  PROVE  /\ ContentInv' /\ PlaceInv' /\ OwnerInv' /\ GrantInv'
         /\ \A y \in Post : Past(y)' => local'[y].raw.ver # tx'.ver
  <1> USE DEF IInv
  <1>1. ContentInv'
    BY ContentWrite
  <1>2. PlaceInv' /\ OwnerInv'
    BY PlaceKept, OwnerWrite
  <1>3. /\ seals \in Nat
        /\ \A y \in Post : local[y].raw.ver \in Nat /\ local[y].claimed \in Nat
    BY LocalTypes
  <1>4. GrantInv'
    <2>1. \A y \in Post \ {x} :
            pc[y] \in Consenting => tx'.ver # local[y].claimed
      BY <1>3 DEF ContentInv, ClaimIsOld, Claimer
    <2> QED BY <2>1, GrantKept
  <1>5. \A y \in Post : Past(y)' => Past(y) /\ local'[y].raw = local[y].raw
    BY DEF OthersStay, Past
  <1>6. \A y \in Post : Past(y)' => local'[y].raw.ver # tx'.ver
    BY <1>3, <1>5 DEF ContentInv, RawIsOld
  <1> QED BY <1>1, <1>2, <1>4, <1>6

\* When it asks for no registration and no code, the rest is preserved too.
LEMMA QuietWrite ==
  ASSUME IInv, NEW x \in Post, OthersStay(x),
         pc' \in [Post -> Pc], local' \in [Post -> Locals], tx' \in Tx,
         seals' = seals + 1, tx'.ver = seals + 1,
         Past(x)' => Past(x) /\ local'[x].raw = local[x].raw,
         Claimer(x)' =>
           \/ local'[x].claimed = seals + 1 /\ tx' = Wrote(x)'
           \/ /\ Claimer(x) /\ local'[x].claimed = local[x].claimed
              /\ Wrote(x)' = Wrote(x),
         Holds(x), Lasts,
         tx'.processing => tx'.session /\ ~tx'.completed,
         tx.processing \/ tx.completed => tx'.processing \/ tx'.completed,
         UNCHANGED <<txLive, cooling, grants, codes>>,
         UNCHANGED <<mails, windows, signups, arrived>>,
         doubtful' \in BOOLEAN, doubtful => doubtful',
         NamesNone(x), RecordsOwn(x), Placed(x)', Owns(x)', Grants(x)',
         pc'[x] \notin {"send", "signup"}
  PROVE  IInv'
  <1>1. /\ ContentInv' /\ PlaceInv' /\ OwnerInv' /\ GrantInv'
        /\ \A y \in Post : Past(y)' => local'[y].raw.ver # tx'.ver
    BY WriteStep
  <1>2. TypeOK'
    BY DEF IInv, TypeOK
  <1>3. SignupInv'
    BY SignupKept DEF IInv, Lasts
  <1>4. MailInv'
    <2>1. \A y \in Post : pc'[y] = "claimSend" => local'[y].raw.ver # tx'.ver
      BY <1>1 DEF Past
    <2> QED BY <2>1, MailKept DEF IInv
  <1> QED BY <1>1, <1>2, <1>3, <1>4 DEF IInv

\* The results of the sign-up forms and of a login are written over what the
\* POST holds.
LEMMA ResultInv ==
  ASSUME IInv, NEW x \in Post, WriteSend(x) \/ WriteSignup(x) \/ WriteLogin(x)
  PROVE  IInv' /\ Lasts
  <1> USE DEF IInv
  <1>0. /\ Reply(x)
        /\ UNCHANGED <<txLive, cooling, grants, codes>>
        /\ UNCHANGED <<mails, windows, signups, doubtful, arrived>>
        /\ pc[x] \in {"writeSend", "writeSignup", "writeLogin"}
    BY DEF WriteSend, WriteSignup, WriteLogin
  <1>1. CASE UNCHANGED <<tx, seals>>
    BY <1>0, <1>1, ReplyStep DEF Lasts
  <1>2. CASE ~UNCHANGED <<tx, seals>>
    <2>1. /\ OthersStay(x) /\ pc'[x] = "idle" /\ local'[x] = NoLocals
          /\ pc' \in [Post -> Pc] /\ local' \in [Post -> Locals]
      BY <1>0, ReplyShape
    <2>2. ~Past(x)' /\ ~Claimer(x)' /\ local'[x].grant = NoGrant
      BY <2>1 DEF Past, Claimer, NoLocals
    <2>3. Placed(x)' /\ Owns(x)' /\ Grants(x)' /\ NamesNone(x)
      BY <2>1, <2>2 DEF Placed, Owns, Grants, NamesNone
    <2>4. PICK next \in Tx, v \in Nat :
            /\ Cas(v, next)
            /\ \/ pc[x] = "writeLogin" /\ v = local[x].raw.ver
               \/ pc[x] # "writeLogin" /\ v = local[x].claimed
            /\ next.processing = local[x].raw.processing
            /\ next.completed = local[x].raw.completed
            /\ next.code = local[x].raw.code
            /\ pc[x] = "writeSignup" => next.attempted
            /\ pc[x] # "writeSignup" => next.attempted = local[x].raw.attempted
      <3>1. local[x].raw \in Tx /\ local[x].ok \in BOOLEAN
            /\ local[x].raw.ver \in Nat /\ local[x].claimed \in Nat
        BY LocalTypes
      <3>2. CASE WriteSend(x)
        <4> DEFINE next == [local[x].raw EXCEPT !.email = local[x].ok]
        <4>1. Cas(local[x].claimed, next) /\ pc[x] = "writeSend"
          BY <1>2, <3>2 DEF WriteSend, CasFails
        <4>2. /\ next \in Tx /\ next.processing = local[x].raw.processing
              /\ next.completed = local[x].raw.completed
              /\ next.code = local[x].raw.code
              /\ next.attempted = local[x].raw.attempted
          BY <3>1 DEF Tx
        <4> HIDE DEF next
        <4> QED BY <3>1, <4>1, <4>2
      <3>3. CASE WriteSignup(x)
        <4> DEFINE next == [local[x].raw EXCEPT !.attempted = TRUE,
                                                !.session = local[x].ok]
        <4>1. Cas(local[x].claimed, next) /\ pc[x] = "writeSignup"
          BY <1>2, <3>3 DEF WriteSignup, CasFails
        <4>2. /\ next \in Tx /\ next.processing = local[x].raw.processing
              /\ next.completed = local[x].raw.completed
              /\ next.code = local[x].raw.code
              /\ next.attempted
          BY <3>1 DEF Tx
        <4> HIDE DEF next
        <4> QED BY <3>1, <4>1, <4>2
      <3>4. CASE WriteLogin(x)
        <4> DEFINE next == [local[x].raw EXCEPT !.session = local[x].ok]
        <4>1. Cas(local[x].raw.ver, next) /\ pc[x] = "writeLogin"
          BY <1>2, <3>4 DEF WriteLogin, CasFails
        <4>2. /\ next \in Tx /\ next.processing = local[x].raw.processing
              /\ next.completed = local[x].raw.completed
              /\ next.code = local[x].raw.code
              /\ next.attempted = local[x].raw.attempted
          BY <3>1 DEF Tx
        <4> HIDE DEF next
        <4> QED BY <3>1, <4>1, <4>2
      <3> QED BY <3>2, <3>3, <3>4
    <2>5. /\ tx' \in Tx /\ tx'.ver = seals + 1 /\ seals' = seals + 1 /\ tx.ver = v
          /\ tx'.attempted = next.attempted /\ tx'.processing = next.processing
          /\ tx'.completed = next.completed /\ tx'.code = next.code
      BY <2>4, SealedShape
    <2>6. Past(x) /\ Holds(x) /\ (pc[x] # "writeLogin" => Claimer(x))
      BY <1>0, <2>4, <2>5 DEF Past, Claimer, Holds
    <2>7. /\ tx.session = local[x].raw.session
          /\ tx.processing = local[x].raw.processing
          /\ tx.completed = local[x].raw.completed /\ tx.code = local[x].raw.code
          /\ pc[x] # "writeSignup" => (tx.attempted <=> local[x].raw.attempted)
      <3>1. CASE pc[x] = "writeLogin"
        BY <2>4, <2>5, <2>6, <3>1, HeldRecord
      <3>2. CASE pc[x] # "writeLogin"
        <4>1. tx = Wrote(x)
          BY <2>4, <2>5, <2>6, <3>2, HeldRecord
        <4>2. local[x].raw \in Tx /\ Wrote(x) \in Tx
          BY LocalTypes, WroteFields
        <4>3. pc[x] \notin Consenting /\ (pc[x] # "writeSignup" => pc[x] \notin Registering)
          BY <1>0
        <4>4. /\ Wrote(x).processing = local[x].raw.processing
              /\ Wrote(x).session = local[x].raw.session
              /\ Wrote(x).completed = local[x].raw.completed
              /\ Wrote(x).code = local[x].raw.code
              /\ pc[x] # "writeSignup" =>
                   (Wrote(x).attempted <=> local[x].raw.attempted)
          BY <4>2, <4>3, WroteFields DEF Tx
        <4> QED BY <4>1, <4>4
      <3> QED BY <3>1, <3>2
    <2>8. ~local[x].raw.processing /\ ~local[x].raw.session
      BY <1>0, <2>6 DEF PlaceInv, Placed
    <2>9. /\ Lasts /\ RecordsOwn(x) /\ ~tx'.processing
          /\ tx.processing \/ tx.completed => tx'.processing \/ tx'.completed
      BY <2>4, <2>5, <2>7, <2>8 DEF Lasts, RecordsOwn
    <2>10. doubtful' \in BOOLEAN /\ doubtful' = doubtful
      BY <1>0 DEF TypeOK
    <2> QED BY <1>0, <2>1, <2>2, <2>3, <2>5, <2>6, <2>9, <2>10, QuietWrite
  <1> QED BY <1>1, <1>2

\* What a claim writes is what the POST is known to have written.
LEMMA ClaimShape ==
  ASSUME IInv, NEW x \in Post, NEW next \in Tx,
         NEW p \in {"send", "signup", "verify", "complete"},
         Past(x), Cas(local[x].raw.ver, next), Goto(x, p),
         local' = [local EXCEPT ![x].claimed = seals + 1],
         next.session = local[x].raw.session, next.email = local[x].raw.email,
         next.completed = local[x].raw.completed, next.code = local[x].raw.code,
         next.attempted <=> local[x].raw.attempted \/ p \in Registering,
         next.processing <=> local[x].raw.processing \/ p \in Consenting
  PROVE  /\ OthersStay(x) /\ pc'[x] = p
         /\ pc' \in [Post -> Pc] /\ local' \in [Post -> Locals]
         /\ local'[x].raw = local[x].raw /\ local'[x].claimed = seals + 1
         /\ local'[x].grant = local[x].grant /\ local'[x].op = local[x].op
         /\ tx' \in Tx /\ seals' = seals + 1 /\ tx'.ver = seals + 1
         /\ tx' = Wrote(x)' /\ Past(x)' /\ Holds(x) /\ Lasts
         /\ tx = local[x].raw
         /\ tx'.processing <=> p \in Consenting
         /\ tx'.session = tx.session /\ tx'.completed = tx.completed
         /\ tx'.attempted <=> tx.attempted \/ p \in Registering
  <1> USE DEF IInv
  <1>1. /\ tx' \in Tx /\ tx'.ver = seals + 1 /\ seals' = seals + 1
        /\ tx' = [next EXCEPT !.ver = seals + 1]
        /\ tx.ver = local[x].raw.ver /\ seals' \in Nat
        /\ tx'.session = next.session /\ tx'.attempted = next.attempted
        /\ tx'.processing = next.processing /\ tx'.completed = next.completed
        /\ tx'.code = next.code
    BY SealedShape
  <1>2. tx'.email = next.email
    BY <1>1 DEF Tx
  <1>3. Holds(x) /\ tx = local[x].raw
    BY <1>1, HeldRecord DEF Holds
  <1>4. ~local[x].raw.processing
    BY DEF PlaceInv, Placed
  <1>5. /\ OthersStay(x) /\ pc'[x] = p
        /\ pc' \in [Post -> Pc] /\ local' \in [Post -> Locals]
        /\ local'[x].raw = local[x].raw /\ local'[x].claimed = seals + 1
        /\ local'[x].grant = local[x].grant /\ local'[x].op = local[x].op
    <2>1. local[x] \in Locals /\ seals + 1 \in Nat
      BY LocalTypes
    <2> DEFINE l == [local[x] EXCEPT !.claimed = seals + 1]
    <2>2. /\ l \in Locals /\ l.raw = local[x].raw /\ l.claimed = seals + 1
          /\ l.grant = local[x].grant /\ l.op = local[x].op
      BY <2>1 DEF Locals
    <2>3. local' = [local EXCEPT ![x] = l] /\ p \in Pc
      BY DEF TypeOK, Pc
    <2> HIDE DEF l
    <2> QED BY <2>2, <2>3, AssignShape
  <1>6. tx' = Wrote(x)'
    <2>1. local[x].raw \in Tx /\ seals + 1 \in Nat
      BY LocalTypes
    <2>2. PICK a \in BOOLEAN, b \in BOOLEAN :
            /\ Wrote(x)' = [local[x].raw EXCEPT !.ver = seals + 1,
                                                !.attempted = a, !.processing = b]
            /\ a <=> local[x].raw.attempted \/ p \in Registering
            /\ b <=> local[x].raw.processing \/ p \in Consenting
      BY <1>5 DEF Wrote
    <2>3. /\ Wrote(x)' \in Tx /\ Wrote(x)'.ver = seals + 1
          /\ Wrote(x)'.attempted = a /\ Wrote(x)'.processing = b
          /\ Wrote(x)'.session = local[x].raw.session
          /\ Wrote(x)'.email = local[x].raw.email
          /\ Wrote(x)'.completed = local[x].raw.completed
          /\ Wrote(x)'.code = local[x].raw.code
      BY <2>1, <2>2 DEF Tx
    <2>4. tx'.attempted = a /\ tx'.processing = b
      BY <1>1, <2>2 DEF Tx
    <2>5. /\ tx'.ver = Wrote(x)'.ver /\ tx'.session = Wrote(x)'.session
          /\ tx'.email = Wrote(x)'.email /\ tx'.completed = Wrote(x)'.completed
          /\ tx'.code = Wrote(x)'.code /\ tx'.attempted = Wrote(x)'.attempted
          /\ tx'.processing = Wrote(x)'.processing
      BY <1>1, <1>2, <2>3, <2>4
    <2> QED BY <1>1, <2>3, <2>5 DEF Tx
  <1> QED BY <1>1, <1>3, <1>4, <1>5, <1>6 DEF Past, Lasts

\* The consent is claimed while nothing is in force.
LEMMA ClaimConsentInv ==
  ASSUME IInv, NEW x \in Post, ClaimConsent(x)
  PROVE  IInv' /\ Lasts
  <1> USE DEF IInv
  <1>0. /\ pc[x] = "claimConsent" /\ Past(x)
        /\ UNCHANGED <<txLive, cooling, grants, codes>>
        /\ UNCHANGED <<mails, windows, signups, doubtful, arrived>>
    BY DEF ClaimConsent, Past
  <1>1. CASE CasFails(local[x].raw.ver) /\ Reply(x)
    BY <1>0, <1>1, ReplyStep DEF CasFails, Lasts
  <1>2. CASE /\ Cas(local[x].raw.ver, [local[x].raw EXCEPT !.processing = TRUE])
             /\ local' = [local EXCEPT ![x].claimed = seals + 1]
             /\ Goto(x, IF local[x].op = "deny" THEN "complete" ELSE "verify")
    <2>1. PICK p \in {"complete", "verify"} : Goto(x, p)
      BY <1>2
    <2>2. PICK next \in Tx :
            /\ Cas(local[x].raw.ver, next)
            /\ next.session = local[x].raw.session
            /\ next.email = local[x].raw.email
            /\ next.completed = local[x].raw.completed
            /\ next.code = local[x].raw.code
            /\ next.attempted = local[x].raw.attempted
            /\ next.processing
      <3> DEFINE next == [local[x].raw EXCEPT !.processing = TRUE]
      <3>1. local[x].raw \in Tx
        BY LocalTypes
      <3>2. /\ next \in Tx /\ next.session = local[x].raw.session
            /\ next.email = local[x].raw.email
            /\ next.completed = local[x].raw.completed
            /\ next.code = local[x].raw.code
            /\ next.attempted = local[x].raw.attempted /\ next.processing
        BY <3>1 DEF Tx
      <3>3. Cas(local[x].raw.ver, next)
        BY <1>2
      <3> HIDE DEF next
      <3> QED BY <3>2, <3>3
    <2>3. /\ next.attempted <=> local[x].raw.attempted \/ p \in Registering
          /\ next.processing <=> local[x].raw.processing \/ p \in Consenting
      BY <2>2
    <2>4. /\ OthersStay(x) /\ pc'[x] = p
          /\ pc' \in [Post -> Pc] /\ local' \in [Post -> Locals]
          /\ local'[x].raw = local[x].raw /\ local'[x].claimed = seals + 1
          /\ local'[x].grant = local[x].grant /\ local'[x].op = local[x].op
          /\ tx' \in Tx /\ seals' = seals + 1 /\ tx'.ver = seals + 1
          /\ tx' = Wrote(x)' /\ Past(x)' /\ Holds(x) /\ Lasts
          /\ tx = local[x].raw
          /\ tx'.processing
          /\ tx'.session = tx.session /\ tx'.completed = tx.completed
      BY <1>0, <1>2, <2>1, <2>2, <2>3, ClaimShape
    <2>5. /\ ~tx.processing /\ ~tx.completed /\ tx.session
          /\ local[x].op \in Consents
      BY <1>0, <2>4 DEF PlaceInv, Placed
    <2>6. Placed(x)'
      BY <1>0, <2>4, <2>5 DEF PlaceInv, Placed
    <2>7. Owns(x)'
      BY <2>4 DEF Owns
    <2>8. Grants(x)' /\ NamesNone(x) /\ RecordsOwn(x)
      <3>1. NoneActive /\ local[x].grant = NoGrant
        BY <1>0, <2>5 DEF GrantInv, Grants
      <3> QED BY <1>0, <2>4, <2>5, <3>1
              DEF Grants, NoneActive, NamesNone, RecordsOwn
    <2>9. doubtful' \in BOOLEAN /\ doubtful' = doubtful
      BY <1>0 DEF TypeOK
    <2> QED BY <1>0, <2>4, <2>5, <2>6, <2>7, <2>8, <2>9, QuietWrite
  <1> QED BY <1>1, <1>2 DEF ClaimConsent

\* A registration is claimed once: what is claimed was not attempted before.
LEMMA ClaimSignupInv ==
  ASSUME IInv, NEW x \in Post, ClaimSignup(x)
  PROVE  IInv' /\ Lasts
  <1> USE DEF IInv
  <1>0. /\ pc[x] = "claimSignup" /\ Past(x)
        /\ UNCHANGED <<txLive, cooling, grants, codes>>
        /\ UNCHANGED <<mails, windows, signups, doubtful, arrived>>
    BY DEF ClaimSignup, Past
  <1>1. CASE CasFails(local[x].raw.ver) /\ Reply(x)
    BY <1>0, <1>1, ReplyStep DEF CasFails, Lasts
  <1>2. CASE /\ Cas(local[x].raw.ver, [local[x].raw EXCEPT !.attempted = TRUE])
             /\ local' = [local EXCEPT ![x].claimed = seals + 1]
             /\ Goto(x, "signup")
    <2>1. ~local[x].raw.processing /\ local[x].op \notin Consents
          /\ ~local[x].raw.session /\ ~local[x].raw.attempted
      BY <1>0 DEF PlaceInv, Placed
    <2>2. PICK next \in Tx :
            /\ Cas(local[x].raw.ver, next)
            /\ next.session = local[x].raw.session
            /\ next.email = local[x].raw.email
            /\ next.completed = local[x].raw.completed
            /\ next.code = local[x].raw.code
            /\ next.attempted
            /\ next.processing = local[x].raw.processing
      <3> DEFINE next == [local[x].raw EXCEPT !.attempted = TRUE]
      <3>1. local[x].raw \in Tx
        BY LocalTypes
      <3>2. /\ next \in Tx /\ next.session = local[x].raw.session
            /\ next.email = local[x].raw.email
            /\ next.completed = local[x].raw.completed
            /\ next.code = local[x].raw.code
            /\ next.attempted /\ next.processing = local[x].raw.processing
        BY <3>1 DEF Tx
      <3>3. Cas(local[x].raw.ver, next)
        BY <1>2
      <3> HIDE DEF next
      <3> QED BY <3>2, <3>3
    <2>3. /\ next.attempted <=> local[x].raw.attempted \/ "signup" \in Registering
          /\ next.processing <=> local[x].raw.processing \/ "signup" \in Consenting
      BY <2>2
    <2>4. /\ OthersStay(x) /\ pc'[x] = "signup"
          /\ pc' \in [Post -> Pc] /\ local' \in [Post -> Locals]
          /\ local'[x].raw = local[x].raw /\ local'[x].claimed = seals + 1
          /\ local'[x].grant = local[x].grant /\ local'[x].op = local[x].op
          /\ tx' \in Tx /\ seals' = seals + 1 /\ tx'.ver = seals + 1
          /\ tx' = Wrote(x)' /\ Past(x)' /\ Holds(x) /\ Lasts
          /\ tx = local[x].raw
          /\ ~tx'.processing /\ tx'.attempted
          /\ tx'.session = tx.session /\ tx'.completed = tx.completed
      BY <1>0, <1>2, <2>2, <2>3, ClaimShape
    <2>5. /\ Placed(x)' /\ Owns(x)' /\ Grants(x)'
          /\ NamesNone(x) /\ RecordsOwn(x)
      BY <1>0, <2>1, <2>4
         DEF PlaceInv, Placed, Owns, GrantInv, Grants, NamesNone, RecordsOwn
    <2>6. tx.processing \/ tx.completed => tx'.processing \/ tx'.completed
      BY <2>1, <2>4
    <2>7. /\ ContentInv' /\ PlaceInv' /\ OwnerInv' /\ GrantInv'
          /\ \A y \in Post : Past(y)' => local'[y].raw.ver # tx'.ver
      BY <1>0, <2>4, <2>5, <2>6, WriteStep
    <2>8. TypeOK'
      BY <1>0, <2>4 DEF TypeOK
    <2>9. SignupInv'
      <3>1. signups = 0 /\ \A y \in Post : pc[y] # "signup"
        BY <2>1, <2>4 DEF SignupInv, TypeOK
      <3> QED BY <1>0, <2>4, <3>1 DEF SignupInv, OthersStay
    <2>10. MailInv'
      <3>1. \A y \in Post : pc'[y] = "claimSend" => local'[y].raw.ver # tx'.ver
        BY <2>7 DEF Past
      <3> QED BY <1>0, <2>4, <3>1, MailKept
    <2> QED BY <2>4, <2>7, <2>8, <2>9, <2>10
  <1> QED BY <1>1, <1>2 DEF ClaimSignup

\* A code is claimed while no window is open, and opens one.
LEMMA ClaimSendInv ==
  ASSUME IInv, NEW x \in Post, ClaimSend(x)
  PROVE  IInv' /\ Lasts
  <1> USE DEF IInv
  <1>0. /\ pc[x] = "claimSend" /\ Past(x)
        /\ UNCHANGED <<txLive, grants, codes>>
        /\ UNCHANGED <<mails, windows, signups, doubtful, arrived>>
    BY DEF ClaimSend, Past
  <1>1. CASE CasFails(local[x].raw.ver) /\ Reply(x) /\ UNCHANGED cooling
    BY <1>0, <1>1, ReplyStep DEF CasFails, Lasts
  <1>2. CASE /\ Cas(local[x].raw.ver, local[x].raw)
             /\ cooling' = TRUE
             /\ local' = [local EXCEPT ![x].claimed = seals + 1]
             /\ Goto(x, "send")
    <2>1. ~local[x].raw.processing /\ local[x].op \notin Consents
          /\ ~local[x].raw.session /\ local[x].raw \in Tx
      BY <1>0, LocalTypes DEF PlaceInv, Placed
    <2>2. /\ local[x].raw.attempted <=>
               local[x].raw.attempted \/ "send" \in Registering
          /\ local[x].raw.processing <=>
               local[x].raw.processing \/ "send" \in Consenting
      OBVIOUS
    <2>4. /\ OthersStay(x) /\ pc'[x] = "send"
          /\ pc' \in [Post -> Pc] /\ local' \in [Post -> Locals]
          /\ local'[x].raw = local[x].raw /\ local'[x].claimed = seals + 1
          /\ local'[x].grant = local[x].grant /\ local'[x].op = local[x].op
          /\ tx' \in Tx /\ seals' = seals + 1 /\ tx'.ver = seals + 1
          /\ tx' = Wrote(x)' /\ Past(x)' /\ Holds(x) /\ Lasts
          /\ tx = local[x].raw
          /\ ~tx'.processing
          /\ tx'.session = tx.session /\ tx'.completed = tx.completed
      BY <1>0, <1>2, <2>1, <2>2, ClaimShape
    <2>5. /\ Placed(x)' /\ Owns(x)' /\ Grants(x)'
          /\ NamesNone(x) /\ RecordsOwn(x)
      BY <1>0, <2>1, <2>4
         DEF PlaceInv, Placed, Owns, GrantInv, Grants, NamesNone, RecordsOwn
    <2>6. tx.processing \/ tx.completed => tx'.processing \/ tx'.completed
      BY <2>1, <2>4
    <2>7. /\ ContentInv' /\ PlaceInv' /\ OwnerInv' /\ GrantInv'
          /\ \A y \in Post : Past(y)' => local'[y].raw.ver # tx'.ver
      BY <1>0, <2>4, <2>5, <2>6, WriteStep
    <2>8. TypeOK'
      BY <1>0, <1>2, <2>4 DEF TypeOK
    <2>9. SignupInv'
      BY <1>0, <2>4, SignupKept DEF Lasts
    <2>10. MailInv'
      <3>1. /\ ~cooling /\ cooling'
            /\ mails + Cardinality(Senders) <= windows
        BY <1>0, <1>2, <2>4 DEF MailInv, TypeOK
      <3>2. /\ Senders' = Senders \union {x} /\ x \notin Senders
            /\ Senders \in SUBSET Post /\ Senders' \in SUBSET Post
        BY <1>0, <2>4 DEF Senders, OthersStay
      <3>3. /\ IsFiniteSet(Senders) /\ Cardinality(Senders) \in Nat
            /\ Cardinality(Senders') \in Nat
        BY <3>2, SendersFinite
      <3>4. Cardinality(Senders \union {x}) = Cardinality(Senders) + 1
        BY <3>2, <3>3, FS_AddElement
      <3>5. mails' = mails /\ windows' = windows /\ mails \in Nat /\ windows \in Nat
        BY <1>0 DEF TypeOK
      <3>6. mails' + Cardinality(Senders') <= windows' + 1
        BY <3>1, <3>2, <3>3, <3>4, <3>5
      <3>7. \A y \in Post : pc'[y] = "claimSend" => local'[y].raw.ver # tx'.ver
        BY <2>7 DEF Past
      <3> QED BY <3>1, <3>6, <3>7 DEF MailInv
    <2> QED BY <2>4, <2>7, <2>8, <2>9, <2>10
  <1> QED BY <1>1, <1>2 DEF ClaimSend

\* The record is completed by the POST that claimed it, whether or not the
\* reply arrives.
LEMMA CompletedInv ==
  ASSUME IInv, NEW x \in Post, pc[x] = "complete",
         Cas(local[x].claimed, Completed(x)),
         \/ Proceed(x, "redirect") /\ doubtful' = doubtful
         \/ Catch(x) /\ doubtful' = TRUE,
         UNCHANGED <<txLive, cooling, grants, codes>>,
         UNCHANGED <<mails, windows, signups, arrived>>
  PROVE  IInv' /\ Lasts
  <1> USE DEF IInv
  <1>1. PICK p \in {"redirect", "revoke", "restore"} :
          /\ Proceed(x, p)
          /\ p = "revoke" => local[x].grant # NoGrant
          /\ (p = "redirect" /\ doubtful' = doubtful) \/ doubtful' = TRUE
    BY DEF Catch
  <1>2. /\ OthersStay(x) /\ pc'[x] = p /\ local' = local
        /\ pc' \in [Post -> Pc] /\ local' \in [Post -> Locals]
    BY <1>1, ProceedShape DEF Pc
  <1>3. /\ Completed(x) \in Tx /\ ~Completed(x).processing
        /\ Completed(x).completed /\ Completed(x).code = local[x].grant
        /\ Completed(x).attempted = local[x].raw.attempted
    <2>1. local[x].raw \in Tx /\ local[x].grant \in GrantId \union {NoGrant}
      BY LocalTypes
    <2> QED BY <2>1 DEF Completed, Tx
  <1>4. /\ tx' \in Tx /\ tx'.ver = seals + 1 /\ seals' = seals + 1
        /\ tx.ver = local[x].claimed
        /\ ~tx'.processing /\ tx'.completed /\ tx'.code = local[x].grant
        /\ tx'.attempted = local[x].raw.attempted
    BY <1>3, SealedShape
  <1>5. Past(x) /\ Claimer(x) /\ Holds(x) /\ tx = Wrote(x)
    BY <1>4, HeldRecord DEF Past, Claimer, Holds
  <1>6. ~tx.completed /\ (tx.attempted => tx'.attempted)
    <2>1. ~local[x].raw.completed
      BY <1>5 DEF PlaceInv, Placed
    <2> QED BY <1>4, <1>5, <2>1, WroteFields
  <1>7. Lasts
    BY <1>4, <1>6 DEF Lasts
  <1>8. Claimer(x)' => /\ local'[x].claimed = local[x].claimed
                       /\ Wrote(x)' = Wrote(x)
    BY <1>2 DEF Claimer, Wrote
  <1>9. Placed(x)' /\ Owns(x)'
    BY <1>2, <1>4, <1>5 DEF PlaceInv, Placed, Past, Owns
  <1>10. Grants(x)'
    <2>1. tx'.ver # local[x].claimed
      BY <1>4, <1>5, LocalTypes DEF ContentInv, ClaimIsOld
    <2> QED BY <1>1, <1>2, <2>1 DEF GrantInv, Grants
  <1>11. NamesNone(x) /\ RecordsOwn(x)
    BY <1>2, <1>4 DEF NamesNone, RecordsOwn
  <1>12. doubtful' \in BOOLEAN /\ (doubtful => doubtful')
    <2>1. doubtful \in BOOLEAN
      BY DEF TypeOK
    <2>2. CASE doubtful' = doubtful
      BY <2>1, <2>2
    <2>3. CASE doubtful' = TRUE
      BY <2>3
    <2> QED BY <1>1, <2>2, <2>3
  <1> QED BY <1>2, <1>4, <1>5, <1>7, <1>8, <1>9, <1>10, <1>11, <1>12, QuietWrite

\* The POST that claimed the record gives it back as it was.
LEMMA RestoreInv ==
  ASSUME IInv, NEW x \in Post, Restore(x)
  PROVE  IInv' /\ Lasts
  <1> USE DEF IInv
  <1>0. /\ pc[x] = "restore" /\ Reply(x)
        /\ UNCHANGED <<txLive, cooling, seals, grants, codes>>
        /\ UNCHANGED <<mails, windows, signups, doubtful, arrived>>
    BY DEF Restore
  <1>1. CASE tx' = tx
    BY <1>0, <1>1, ReplyStep DEF Lasts
  <1>2. CASE tx.ver = local[x].claimed /\ tx' = local[x].raw
    <2>1. /\ OthersStay(x) /\ pc'[x] = "idle" /\ local'[x] = NoLocals
          /\ pc' \in [Post -> Pc] /\ local' \in [Post -> Locals]
      BY <1>0, ReplyShape
    <2>2. /\ ~Past(x)' /\ ~Claimer(x)' /\ local'[x].grant = NoGrant
          /\ Placed(x)' /\ Owns(x)' /\ Grants(x)'
      BY <2>1 DEF Past, Claimer, NoLocals, Placed, Owns, Grants
    <2>3. Past(x) /\ Claimer(x) /\ Holds(x) /\ tx = Wrote(x)
      BY <1>0, <1>2, HeldRecord DEF Past, Claimer, Holds
    <2>4. /\ ~tx.completed /\ ~tx'.processing /\ ~tx'.completed
          /\ tx'.session /\ (tx.attempted <=> tx'.attempted)
      <3>1. /\ ~local[x].raw.completed /\ ~local[x].raw.processing
            /\ local[x].raw.session
        BY <1>0, <2>3 DEF PlaceInv, Placed
      <3> QED BY <1>0, <1>2, <2>3, <3>1, WroteFields
    <2>5. tx' \in Tx
      BY <1>2, LocalTypes
    <2>6. ContentInv'
      <3>1. \A y \in Post \ {x} : /\ Past(y)' = Past(y)
                                  /\ Claimer(y)' = Claimer(y)
                                  /\ local'[y] = local[y] /\ Wrote(y)' = Wrote(y)
        BY <2>1 DEF OthersStay, Past, Claimer, Wrote
      <3>2. ASSUME NEW y \in Post PROVE RawIsOld(y)' /\ ClaimIsOld(y)'
        BY <1>0, <1>2, <2>2, <2>3, <3>1
           DEF ContentInv, RawIsOld, ClaimIsOld, SameRaw, RawIsClaim
      <3>3. ASSUME NEW y \in Post, NEW z \in Post
            PROVE  SameRaw(y, z)' /\ RawIsClaim(y, z)' /\ ClaimsDiffer(y, z)'
        BY <2>2, <3>1 DEF ContentInv, SameRaw, RawIsClaim, ClaimsDiffer
      <3>4. (tx.ver <= seals)'
        BY <1>0, <1>2, <2>3 DEF ContentInv, RawIsOld
      <3> QED BY <3>2, <3>3, <3>4 DEF ContentInv
    <2>7. PlaceInv'
      BY <2>1, <2>2, <2>4, PlaceKept
    <2>8. OwnerInv'
      <3>1. ASSUME NEW y \in Post \ {x} PROVE Owns(y)'
        <4>1. pc'[y] = pc[y] /\ local'[y] = local[y] /\ Owns(y)
          BY <2>1 DEF OthersStay, OwnerInv
        <4>2. pc[y] \in Consenting => tx.ver # local[y].claimed
          BY <2>3, OwnerExcludes
        <4> QED BY <2>4, <4>1, <4>2 DEF Owns
      <3> QED BY <2>2, <3>1 DEF OwnerInv
    <2>9. GrantInv'
      <3>1. NoneActive /\ NoneActive'
        BY <1>0, <1>2 DEF GrantInv, Grants, NoneActive
      <3>2. ASSUME NEW y \in Post \ {x} PROVE Grants(y)'
        <4>1. pc'[y] = pc[y] /\ local'[y] = local[y] /\ Grants(y)
          BY <2>1 DEF OthersStay, GrantInv
        <4> QED BY <1>0, <2>4, <3>1, <4>1 DEF Grants, NoneActive
      <3>3. ASSUME NEW y \in Post, NEW z \in Post PROVE GrantsDiffer(y, z)'
        BY <2>1, <2>2 DEF OthersStay, GrantInv, GrantsDiffer
      <3>4. OneGrantInForce' /\ Recorded'
        BY <2>4, <3>1 DEF OneGrantInForce, NoneActive, Recorded
      <3> QED BY <2>2, <3>1, <3>2, <3>3, <3>4 DEF GrantInv
    <2>10. SignupInv'
      BY <1>0, <2>1, <2>4, SignupKept
    <2>11. MailInv'
      <3>1. ASSUME NEW y \in Post, pc'[y] = "claimSend",
                   local'[y].raw.ver = tx'.ver
            PROVE  FALSE
        <4>1. /\ y # x /\ pc[y] = "claimSend" /\ local'[y] = local[y]
          BY <2>1, <3>1 DEF OthersStay
        <4>2. Past(y) /\ local[y].raw = local[x].raw
          BY <1>2, <2>3, <3>1, <4>1 DEF Past, ContentInv, SameRaw
        <4>3. ~local[y].raw.session
          BY <4>1, <4>2 DEF PlaceInv, Placed
        <4> QED BY <1>2, <2>4, <4>2, <4>3
      <3> QED BY <1>0, <2>1, <3>1, MailKept
    <2>12. TypeOK'
      BY <1>0, <2>1, <2>5 DEF TypeOK
    <2>13. Lasts
      BY <2>4 DEF Lasts
    <2> QED BY <2>6, <2>7, <2>8, <2>9, <2>10, <2>11, <2>12, <2>13
  <1> QED BY <1>1, <1>2 DEF Restore

-----------------------------------------------------------------------------
(***************************************************************************)
(* The backend's answers and the grants.                                   *)
(***************************************************************************)

\* Going on within its claim, a POST leaves the record's layers as they are.
LEMMA RecordMove ==
  ASSUME IInv, NEW x \in Post, OthersStay(x), UNCHANGED <<tx, seals>>,
         Past(x)' => Past(x) /\ local'[x].raw = local[x].raw,
         Claimer(x)' => /\ Claimer(x)
                        /\ local'[x].claimed = local[x].claimed
                        /\ Wrote(x)' = Wrote(x),
         Placed(x)', Owns(x)'
  PROVE  ContentInv' /\ PlaceInv' /\ OwnerInv'
  <1> USE DEF IInv
  <1>1. tx'.processing => tx'.session /\ ~tx'.completed
    BY DEF PlaceInv
  <1> QED BY <1>1, ContentMove, PlaceKept, OwnerMove

\* It asks for no registration and no code on the way.
LEMMA QuietMove ==
  ASSUME IInv, NEW x \in Post, OthersStay(x), tx' = tx,
         UNCHANGED <<mails, windows, signups, cooling>>,
         pc'[x] \notin {"send", "signup", "claimSend"}
  PROVE  SignupInv' /\ MailInv'
  <1> USE DEF IInv
  <1>1. SignupInv'
    BY SignupKept
  <1>2. \A y \in Post :
          pc'[y] = "claimSend" /\ local'[y].raw.ver = tx'.ver =>
            pc[y] = "claimSend" /\ local[y].raw.ver = tx.ver
    BY DEF OthersStay
  <1>3. MailInv'
    BY <1>2, MailKept
  <1> QED BY <1>1, <1>3

\* An answer of the backend to a sign-up form or a login is kept.
LEMMA AnswerShape ==
  ASSUME IInv, NEW x \in Post, NEW p \in {"writeSend", "writeSignup", "writeLogin"},
         Goto(x, p), NEW ok \in BOOLEAN, local' = [local EXCEPT ![x].ok = ok],
         pc[x] \in {"send", "signup", "login"},
         pc[x] = "send" <=> p = "writeSend",
         pc[x] = "signup" <=> p = "writeSignup",
         UNCHANGED <<tx, seals, grants, codes, doubtful>>
  PROVE  /\ OthersStay(x) /\ pc'[x] = p
         /\ pc' \in [Post -> Pc] /\ local' \in [Post -> Locals]
         /\ ContentInv' /\ PlaceInv' /\ OwnerInv' /\ GrantInv'
  <1> USE DEF IInv
  <1> DEFINE l == [local[x] EXCEPT !.ok = ok]
  <1>1. /\ l \in Locals /\ l.raw = local[x].raw /\ l.claimed = local[x].claimed
        /\ l.grant = local[x].grant /\ l.op = local[x].op
    BY LocalTypes DEF Locals
  <1>2. local' = [local EXCEPT ![x] = l] /\ p \in Pc
    BY DEF TypeOK, Pc
  <1> HIDE DEF l
  <1>3. /\ OthersStay(x) /\ pc'[x] = p /\ local'[x] = l
        /\ pc' \in [Post -> Pc] /\ local' \in [Post -> Locals]
    BY <1>1, <1>2, AssignShape
  <1>4. Past(x) /\ (Claimer(x)' => Claimer(x) /\ Wrote(x)' = Wrote(x))
    BY <1>1, <1>3 DEF Past, Claimer, Wrote
  <1>5. Placed(x)' /\ Owns(x)' /\ Grants(x)'
    BY <1>1, <1>3, <1>4 DEF PlaceInv, Placed, Past, Owns, GrantInv, Grants
  <1>6. ContentInv' /\ PlaceInv' /\ OwnerInv'
    BY <1>1, <1>3, <1>4, <1>5, RecordMove
  <1>7. GrantInv'
    <2>1. NamesNone(x) /\ RecordsOwn(x) /\ Lasts
      BY <1>3 DEF NamesNone, RecordsOwn, Lasts
    <2> QED BY <1>3, <1>5, <2>1, GrantKept
  <1> QED BY <1>3, <1>6, <1>7

\* The e-mail code is requested within the claim's window.
LEMMA SendInv == ASSUME IInv, NEW x \in Post, SendCode(x) PROVE IInv'
  <1> USE DEF IInv
  <1>0. /\ pc[x] = "send" /\ mails' = mails + 1
        /\ UNCHANGED <<tx, txLive, cooling, seals, grants, codes>>
        /\ UNCHANGED <<windows, signups, doubtful, arrived>>
    BY DEF SendCode
  <1>1. /\ OthersStay(x) /\ pc'[x] = "writeSend"
        /\ pc' \in [Post -> Pc] /\ local' \in [Post -> Locals]
        /\ ContentInv' /\ PlaceInv' /\ OwnerInv' /\ GrantInv'
    BY <1>0, AnswerShape DEF SendCode
  <1>2. TypeOK' /\ SignupInv'
    BY <1>0, <1>1, SignupKept DEF TypeOK
  <1>3. MailInv'
    <2>1. /\ Senders \in SUBSET Post /\ x \in Senders /\ Senders' = Senders \ {x}
          /\ Senders' \in SUBSET Post
      BY <1>0, <1>1 DEF Senders, OthersStay
    <2>2. IsFiniteSet(Senders) /\ Cardinality(Senders) \in Nat
      BY <2>1, SendersFinite
    <2>3. Cardinality(Senders') = Cardinality(Senders) - 1
      BY <2>1, <2>2, FS_RemoveElement
    <2>4. mails \in Nat /\ windows \in Nat
      BY DEF TypeOK
    <2>5. mails + Cardinality(Senders) <= windows + (IF cooling THEN 1 ELSE 0)
      BY DEF MailInv
    <2>6. mails' + Cardinality(Senders') <= windows + (IF cooling THEN 1 ELSE 0)
      BY <1>0, <2>2, <2>3, <2>4, <2>5
    <2>7. \A y \in Post : pc'[y] = "claimSend" /\ local'[y].raw.ver = tx'.ver =>
                           ~cooling
      BY <1>0, <1>1 DEF OthersStay, MailInv
    <2> QED BY <1>0, <2>6, <2>7 DEF MailInv
  <1> QED BY <1>1, <1>2, <1>3

\* The registration is requested once.
LEMMA SignUpInv == ASSUME IInv, NEW x \in Post, SignUp(x) PROVE IInv'
  <1> USE DEF IInv
  <1>0. /\ pc[x] = "signup" /\ signups' = signups + 1
        /\ UNCHANGED <<tx, txLive, cooling, seals, grants, codes>>
        /\ UNCHANGED <<mails, windows, doubtful, arrived>>
    BY DEF SignUp
  <1>1. /\ OthersStay(x) /\ pc'[x] = "writeSignup"
        /\ pc' \in [Post -> Pc] /\ local' \in [Post -> Locals]
        /\ ContentInv' /\ PlaceInv' /\ OwnerInv' /\ GrantInv'
    BY <1>0, AnswerShape DEF SignUp
  <1>2. TypeOK'
    BY <1>0, <1>1 DEF TypeOK
  <1>3. SignupInv'
    BY <1>0, <1>1 DEF SignupInv, OthersStay
  <1>4. MailInv'
    <2>1. \A y \in Post :
            pc'[y] = "claimSend" /\ local'[y].raw.ver = tx'.ver =>
              pc[y] = "claimSend" /\ local[y].raw.ver = tx.ver
      BY <1>0, <1>1 DEF OthersStay
    <2> QED BY <1>0, <1>1, <2>1, MailKept
  <1> QED BY <1>1, <1>2, <1>3, <1>4

\* The login is answered.
LEMMA LogInInv == ASSUME IInv, NEW x \in Post, LogIn(x) PROVE IInv'
  <1> USE DEF IInv
  <1>0. /\ pc[x] = "login"
        /\ UNCHANGED <<tx, txLive, cooling, seals, grants, codes>>
        /\ UNCHANGED <<mails, windows, signups, doubtful, arrived>>
    BY DEF LogIn
  <1>1. CASE Reply(x)
    BY <1>0, <1>1, ReplyStep
  <1>2. CASE ~Reply(x)
    <2>1. /\ OthersStay(x) /\ pc'[x] = "writeLogin"
          /\ pc' \in [Post -> Pc] /\ local' \in [Post -> Locals]
          /\ ContentInv' /\ PlaceInv' /\ OwnerInv' /\ GrantInv'
      BY <1>0, <1>2, AnswerShape DEF LogIn
    <2>2. TypeOK'
      BY <1>0, <2>1 DEF TypeOK
    <2> QED BY <1>0, <2>1, <2>2, QuietMove
  <1> QED BY <1>1, <1>2

\* A change of a POST's own grant concerns no other POST, if it ends a grant
\* or the record is the POST's.
LEMMA GrantOthers ==
  ASSUME IInv, NEW x \in Post, OthersStay(x), tx' = tx, codes \subseteq codes',
         local'[x].grant # NoGrant, grants'[local'[x].grant] # "none",
         \A y \in Post \ {x} :
           pc[y] \in Consenting => local[y].grant # local'[x].grant,
         doubtful' = doubtful,
         \A g \in GrantId \ {local'[x].grant} : grants'[g] = grants[g],
         \/ Holds(x)
         \/ \A g \in GrantId : grants'[g] = "active" => grants[g] = "active"
  PROVE  /\ \A y \in Post \ {x} : Grants(y)'
         /\ \A y, z \in Post : GrantsDiffer(y, z)'
  <1> USE DEF IInv
  <1>1. ASSUME NEW y \in Post \ {x} PROVE Grants(y)'
    <2>1. pc'[y] = pc[y] /\ local'[y] = local[y] /\ Grants(y)
      BY DEF OthersStay, GrantInv
    <2>2. local[y].grant # NoGrant =>
            /\ grants'[local[y].grant] # "none"
            /\ pc[y] \in Consenting =>
                 grants'[local[y].grant] = grants[local[y].grant]
      BY <2>1, LocalTypes DEF Grants
    <2>3. CASE Holds(x)
      <3>1. pc[y] \in Consenting => tx.ver # local[y].claimed
        BY <2>3, OwnerExcludes
      <3>2. pc[y] \notin Try
        BY <3>1 DEF OwnerInv, Owns
      <3> QED BY <2>1, <2>2, <3>1, <3>2 DEF Grants
    <2>4. CASE \A g \in GrantId : grants'[g] = "active" => grants[g] = "active"
      BY <2>1, <2>2, <2>4 DEF Grants, NoneActive
    <2> QED BY <2>3, <2>4
  <1>2. ASSUME NEW y \in Post, NEW z \in Post PROVE GrantsDiffer(y, z)'
    BY DEF OthersStay, GrantInv, GrantsDiffer
  <1> QED BY <1>1, <1>2

\* The owner of a consent goes on within it; its grant is its own affair.
LEMMA ConsentMove ==
  ASSUME IInv, NEW x \in Post, OthersStay(x), pc[x] \in Consenting,
         pc'[x] \in Consenting, pc[x] \in Try \/ pc'[x] \in Catching,
         pc' \in [Post -> Pc], local' \in [Post -> Locals],
         local'[x].raw = local[x].raw, local'[x].claimed = local[x].claimed,
         local'[x].op = local[x].op,
         UNCHANGED <<tx, txLive, cooling, seals>>,
         UNCHANGED <<mails, windows, signups, doubtful, arrived>>,
         grants' \in [GrantId -> {"none", "named", "active", "revoked"}],
         codes' \in SUBSET GrantId, GrantInv'
  PROVE  IInv'
  <1> USE DEF IInv
  <1>1. Past(x) /\ Claimer(x) /\ Wrote(x)' = Wrote(x)
    BY DEF Past, Claimer, Wrote
  <1>2. Placed(x)' /\ Owns(x)'
    BY DEF PlaceInv, Placed, Past, OwnerInv, Owns
  <1>3. ContentInv' /\ PlaceInv' /\ OwnerInv'
    BY <1>1, <1>2, RecordMove
  <1>4. SignupInv' /\ MailInv'
    BY QuietMove
  <1>5. TypeOK'
    BY DEF TypeOK
  <1> QED BY <1>3, <1>4, <1>5

\* A grant is named that nobody has named.
LEMMA VerifyInv == ASSUME IInv, NEW x \in Post, Verify(x) PROVE IInv'
  <1> USE DEF IInv
  <1>0. /\ pc[x] = "verify"
        /\ UNCHANGED <<tx, txLive, cooling, seals, codes>>
        /\ UNCHANGED <<mails, windows, signups, doubtful, arrived>>
    BY DEF Verify
  <1>1. CASE Catch(x) /\ UNCHANGED grants
    BY <1>0, <1>1, CatchStep
  <1>2. ASSUME NEW g \in GrantId, grants[g] = "none",
               grants' = [grants EXCEPT ![g] = "named"],
               local' = [local EXCEPT ![x].grant = g], Goto(x, "create")
        PROVE  IInv'
    <2> DEFINE l == [local[x] EXCEPT !.grant = g]
    <2>1. /\ l \in Locals /\ l.raw = local[x].raw /\ l.claimed = local[x].claimed
          /\ l.grant = g /\ l.op = local[x].op
      BY LocalTypes DEF Locals
    <2>2. local' = [local EXCEPT ![x] = l] /\ "create" \in Pc
      BY <1>2 DEF TypeOK, Pc
    <2> HIDE DEF l
    <2>3. /\ OthersStay(x) /\ pc'[x] = "create" /\ local'[x] = l
          /\ pc' \in [Post -> Pc] /\ local' \in [Post -> Locals]
      BY <1>2, <2>1, <2>2, AssignShape
    <2>4. /\ grants' \in [GrantId -> {"none", "named", "active", "revoked"}]
          /\ grants'[g] = "named" /\ g # NoGrant
          /\ \A h \in GrantId \ {g} : grants'[h] = grants[h]
      BY <1>2, ConstantsOK DEF TypeOK
    <2>5. \A y \in Post : local[y].grant # g
      BY <1>2, <2>4 DEF GrantInv, Grants
    <2>6. /\ \A y \in Post \ {x} : Grants(y)'
          /\ \A y, z \in Post : GrantsDiffer(y, z)'
      BY <1>0, <2>1, <2>3, <2>4, <2>5, GrantOthers
    <2>7. NoneActive /\ NoneActive'
      BY <1>0, <2>4 DEF GrantInv, Grants, NoneActive
    <2>8. Grants(x)'
      BY <2>1, <2>3, <2>4, <2>7 DEF Grants, NoneActive
    <2>9. OneGrantInForce' /\ Recorded'
      BY <1>0, <1>2, <2>4, <2>7
         DEF OneGrantInForce, NoneActive, GrantInv, Recorded, TypeOK, Tx
    <2>10. GrantInv'
      BY <2>6, <2>7, <2>8, <2>9 DEF GrantInv
    <2>11. codes' \in SUBSET GrantId
      BY <1>0 DEF TypeOK
    <2> QED BY <1>0, <2>1, <2>3, <2>4, <2>10, <2>11, ConsentMove
  <1> QED BY <1>1, <1>2 DEF Verify

\* It comes into force while no other is.
LEMMA CreateInv == ASSUME IInv, NEW x \in Post, CreateGrant(x) PROVE IInv'
  <1> USE DEF IInv
  <1> DEFINE g == local[x].grant
  <1>0. /\ pc[x] = "create" /\ Proceed(x, "issue")
        /\ grants' = [grants EXCEPT ![g] = "active"]
        /\ UNCHANGED <<tx, txLive, cooling, seals, codes>>
        /\ UNCHANGED <<mails, windows, signups, doubtful, arrived>>
    BY DEF CreateGrant
  <1>1. /\ OthersStay(x) /\ pc'[x] = "issue" /\ local' = local
        /\ pc' \in [Post -> Pc] /\ local' \in [Post -> Locals]
    BY <1>0, ProceedShape DEF Pc
  <1>2. g \in GrantId /\ g # NoGrant /\ NoneActive
    BY <1>0, LocalTypes DEF GrantInv, Grants
  <1>3. /\ grants' \in [GrantId -> {"none", "named", "active", "revoked"}]
        /\ grants'[g] = "active"
        /\ \A h \in GrantId \ {g} : grants'[h] = grants[h]
    BY <1>0, <1>2 DEF TypeOK
  <1>4. Holds(x) /\ tx = Wrote(x) /\ tx.processing
    <2>1. tx.ver = local[x].claimed /\ Claimer(x)
      BY <1>0 DEF OwnerInv, Owns, Claimer
    <2> QED BY <1>0, <2>1, HeldRecord, WroteFields DEF Holds
  <1>5. \A y \in Post \ {x} : pc[y] \in Consenting => local[y].grant # g
    BY <1>0, <1>2 DEF GrantInv, GrantsDiffer
  <1>6. /\ \A y \in Post \ {x} : Grants(y)'
        /\ \A y, z \in Post : GrantsDiffer(y, z)'
    BY <1>0, <1>1, <1>2, <1>3, <1>4, <1>5, GrantOthers
  <1>7. \A h \in GrantId : grants'[h] = "active" => h = g
    BY <1>2, <1>3 DEF NoneActive
  <1>8. Grants(x)'
    BY <1>1, <1>2, <1>3, <1>7 DEF Grants
  <1>9. GrantInv'
    <2>1. Recorded'
      BY <1>0, <1>4 DEF PlaceInv, Recorded
    <2> QED BY <1>0, <1>4, <1>6, <1>7, <1>8, <2>1 DEF GrantInv, OneGrantInForce
  <1>10. codes' \in SUBSET GrantId
    BY <1>0 DEF TypeOK
  <1> QED BY <1>0, <1>1, <1>3, <1>9, <1>10, ConsentMove

\* Its code is stored.
LEMMA IssueInv == ASSUME IInv, NEW x \in Post, IssueCode(x) PROVE IInv'
  <1> USE DEF IInv
  <1>0. /\ pc[x] = "issue"
        /\ UNCHANGED <<tx, txLive, cooling, seals, grants>>
        /\ UNCHANGED <<mails, windows, signups, doubtful, arrived>>
    BY DEF IssueCode
  <1>1. CASE Catch(x) /\ UNCHANGED codes
    BY <1>0, <1>1, CatchStep
  <1>2. CASE codes' = codes \union {local[x].grant} /\ Proceed(x, "complete")
    <2>1. /\ OthersStay(x) /\ pc'[x] = "complete" /\ local' = local
          /\ pc' \in [Post -> Pc] /\ local' \in [Post -> Locals]
      BY <1>2, ProceedShape DEF Pc
    <2>2. local[x].grant \in GrantId /\ local[x].grant # NoGrant
      BY <1>0, LocalTypes DEF GrantInv, Grants
    <2>3. /\ grants[local[x].grant] # "none"
          /\ \A y \in Post \ {x} :
               pc[y] \in Consenting => local[y].grant # local[x].grant
      BY <1>0, <2>2 DEF GrantInv, Grants, GrantsDiffer
    <2>4. /\ \A y \in Post \ {x} : Grants(y)'
          /\ \A y, z \in Post : GrantsDiffer(y, z)'
      BY <1>0, <1>2, <2>1, <2>2, <2>3, GrantOthers
    <2>5. Grants(x)'
      BY <1>0, <1>2, <2>1, <2>2 DEF GrantInv, Grants
    <2>6. /\ OneGrantInForce' /\ (NoneActive \/ tx.processing \/ tx.completed)'
          /\ Recorded'
      BY <1>0, <1>2 DEF GrantInv, OneGrantInForce, NoneActive, Recorded
    <2>7. GrantInv'
      BY <2>4, <2>5, <2>6 DEF GrantInv
    <2>8. /\ grants' \in [GrantId -> {"none", "named", "active", "revoked"}]
          /\ codes' \in SUBSET GrantId
      BY <1>0, <1>2, <2>2 DEF TypeOK
    <2> QED BY <1>0, <2>1, <2>7, <2>8, ConsentMove
  <1> QED BY <1>1, <1>2 DEF IssueCode

\* The catch block ends the grant it named, and no other.
LEMMA RevokeInv == ASSUME IInv, NEW x \in Post, RevokeGrant(x) PROVE IInv'
  <1> USE DEF IInv
  <1> DEFINE g == local[x].grant
  <1>0. /\ pc[x] = "revoke" /\ Proceed(x, "restore")
        /\ grants' = [grants EXCEPT ![g] = IF @ = "active" THEN "revoked" ELSE @]
        /\ UNCHANGED <<tx, txLive, cooling, seals, codes>>
        /\ UNCHANGED <<mails, windows, signups, doubtful, arrived>>
    BY DEF RevokeGrant
  <1>1. /\ OthersStay(x) /\ pc'[x] = "restore" /\ local' = local
        /\ pc' \in [Post -> Pc] /\ local' \in [Post -> Locals]
    BY <1>0, ProceedShape DEF Pc
  <1>2. g \in GrantId /\ g # NoGrant /\ grants[g] # "none"
    BY <1>0, LocalTypes DEF GrantInv, Grants
  <1>3. /\ grants' \in [GrantId -> {"none", "named", "active", "revoked"}]
        /\ grants'[g] # "active" /\ grants'[g] # "none"
        /\ \A h \in GrantId \ {g} : grants'[h] = grants[h]
    BY <1>0, <1>2 DEF TypeOK
  <1>4. \A h \in GrantId : grants'[h] = "active" => grants[h] = "active" /\ h # g
    BY <1>2, <1>3
  <1>5. \A y \in Post \ {x} : pc[y] \in Consenting => local[y].grant # g
    BY <1>0, <1>2 DEF GrantInv, GrantsDiffer
  <1>6. /\ \A y \in Post \ {x} : Grants(y)'
        /\ \A y, z \in Post : GrantsDiffer(y, z)'
    BY <1>0, <1>1, <1>2, <1>3, <1>4, <1>5, GrantOthers
  <1>7. tx.ver = local[x].claimed => NoneActive'
    BY <1>0, <1>4 DEF GrantInv, Grants, NoneActive
  <1>8. Grants(x)'
    <2>1. tx.completed /\ tx.code = g => doubtful
      BY <1>0, <1>2 DEF GrantInv, Grants
    <2> QED BY <1>0, <1>1, <1>2, <1>3, <1>7, <2>1 DEF Grants, NoneActive
  <1>9. OneGrantInForce' /\ (NoneActive \/ tx.processing \/ tx.completed)'
    BY <1>0, <1>4 DEF GrantInv, OneGrantInForce, NoneActive
  <1>10. GrantInv'
    <2>1. Recorded'
      <3>1. tx.completed /\ tx.code = g => doubtful
        BY <1>0, <1>2 DEF GrantInv, Grants
      <3>2. tx.code \in GrantId \union {NoGrant}
        BY DEF TypeOK, Tx
      <3> QED BY <1>0, <1>3, <1>4, <3>1, <3>2 DEF GrantInv, Recorded
    <2> QED BY <1>6, <1>8, <1>9, <2>1 DEF GrantInv
  <1>11. codes' \in SUBSET GrantId
    BY <1>0 DEF TypeOK
  <1> QED BY <1>0, <1>1, <1>3, <1>10, <1>11, ConsentMove

\* Nothing but the mails depends on the clock.
LEMMA SameStep ==
  ASSUME IInv, UNCHANGED <<tx, seals, grants, codes, pc, local, signups, doubtful>>
  PROVE  ContentInv' /\ PlaceInv' /\ OwnerInv' /\ GrantInv' /\ SignupInv'
  <1> USE DEF IInv
  <1>1. ContentInv'
    <2>1. \A y \in Post : /\ Past(y)' = Past(y) /\ Claimer(y)' = Claimer(y)
                          /\ Wrote(y)' = Wrote(y)
      BY DEF Past, Claimer, Wrote
    <2>2. \A y \in Post : RawIsOld(y)' /\ ClaimIsOld(y)'
      BY <2>1 DEF ContentInv, RawIsOld, ClaimIsOld
    <2>3. \A y, z \in Post :
            SameRaw(y, z)' /\ RawIsClaim(y, z)' /\ ClaimsDiffer(y, z)'
      BY <2>1 DEF ContentInv, SameRaw, RawIsClaim, ClaimsDiffer
    <2> QED BY <2>2, <2>3 DEF ContentInv
  <1>2. PlaceInv' /\ OwnerInv'
    BY DEF PlaceInv, Placed, Past, OwnerInv, Owns
  <1>3. GrantInv' /\ SignupInv'
    BY DEF GrantInv, Grants, GrantsDiffer, NoneActive, Recorded, OneGrantInForce,
           SignupInv
  <1> QED BY <1>1, <1>2, <1>3

\* Time passes.
LEMMA ClockInv == ASSUME IInv, Expire \/ CoolDown PROVE IInv'
  <1> USE DEF IInv
  <1>1. /\ UNCHANGED <<tx, seals, grants, codes, pc, local>>
        /\ UNCHANGED <<mails, signups, doubtful, arrived>>
    BY DEF Expire, CoolDown
  <1>2. TypeOK'
    <2>1. txLive' \in BOOLEAN /\ cooling' \in BOOLEAN /\ windows' \in Nat
      <3>1. CASE Expire
        BY <3>1 DEF Expire, TypeOK
      <3>2. CASE CoolDown
        <4>1. windows \in Nat /\ windows' = windows + 1
          BY <3>2 DEF CoolDown, TypeOK
        <4>2. txLive' \in BOOLEAN /\ cooling' \in BOOLEAN
          BY <3>2 DEF CoolDown, TypeOK
        <4> QED BY <4>1, <4>2
      <3> QED BY <3>1, <3>2
    <2> QED BY <1>1, <2>1 DEF TypeOK
  <1>3. ContentInv' /\ PlaceInv' /\ OwnerInv' /\ GrantInv' /\ SignupInv'
    BY <1>1, SameStep
  <1>6. MailInv'
    <2>1. Senders' = Senders /\ Senders \in SUBSET Post
      BY <1>1 DEF Senders
    <2>2. Cardinality(Senders) \in Nat /\ mails \in Nat /\ windows \in Nat
      BY <2>1, SendersFinite DEF TypeOK
    <2>3. \/ cooling' = cooling /\ windows' = windows
          \/ cooling /\ ~cooling' /\ windows' = windows + 1
      BY DEF Expire, CoolDown
    <2>4. mails' + Cardinality(Senders') <= windows' + (IF cooling' THEN 1 ELSE 0)
      BY <1>1, <2>1, <2>2, <2>3 DEF MailInv
    <2> QED BY <1>1, <2>3, <2>4 DEF MailInv
  <1> QED BY <1>2, <1>3, <1>6

-----------------------------------------------------------------------------
\* A POST that ends, by a refusal, a failure or a crash.
LEMMA EndInv ==
  ASSUME IInv, NEW x \in Post,
         CommandFails(x) \/ ClaimReplyLost(x) \/ Crash(x) \/ Redirect(x)
  PROVE  IInv' /\ Lasts
  <1>1. /\ Reply(x)
        /\ UNCHANGED <<tx, txLive, cooling, seals, grants, codes>>
        /\ UNCHANGED <<mails, windows, signups, doubtful, arrived>>
    BY DEF CommandFails, ClaimReplyLost, Crash, Redirect
  <1> QED BY <1>1, ReplyStep DEF Lasts

\* A failure inside the try block, and the completion with its outcomes.
LEMMA TryInv ==
  ASSUME IInv, NEW x \in Post,
         TryFails(x) \/ Complete(x) \/ CompleteReplyLost(x)
  PROVE  IInv' /\ Lasts
  <1>1. CASE TryFails(x)
    <2>1. /\ pc[x] \in Try /\ Catch(x)
          /\ UNCHANGED <<tx, txLive, cooling, seals, grants, codes>>
          /\ UNCHANGED <<mails, windows, signups, doubtful, arrived>>
      BY <1>1 DEF TryFails, Caught
    <2> QED BY <2>1, CatchStep DEF Lasts
  <1>2. CASE Complete(x)
    <2>1. CASE CasFails(local[x].claimed) /\ Catch(x)
      <3>1. /\ pc[x] \in Try
            /\ UNCHANGED <<tx, txLive, cooling, seals, grants, codes>>
            /\ UNCHANGED <<mails, windows, signups, doubtful, arrived>>
        BY <1>2, <2>1 DEF Complete, CasFails
      <3> QED BY <2>1, <3>1, CatchStep DEF Lasts
    <2>2. CASE Cas(local[x].claimed, Completed(x)) /\ Proceed(x, "redirect")
      BY <1>2, <2>2, CompletedInv DEF Complete
    <2> QED BY <1>2, <2>1, <2>2 DEF Complete
  <1>3. CASE CompleteReplyLost(x)
    BY <1>3, CompletedInv DEF CompleteReplyLost
  <1> QED BY <1>1, <1>2, <1>3

\* Every step keeps the invariant, and what the record says for good.
LEMMA NextInv == IInv /\ Next => IInv' /\ Lasts
  <1> SUFFICES ASSUME IInv, Next PROVE IInv' /\ Lasts
    OBVIOUS
  <1>1. CASE Expire \/ CoolDown
    BY <1>1, ClockInv DEF Expire, CoolDown, Lasts
  <1>2. ASSUME NEW x \in Post,
               (\E op \in Operations : Arrive(x, op)) \/ Step(x) \/ Failure(x)
        PROVE  IInv' /\ Lasts
    <2>1. CASE \E op \in Operations : Arrive(x, op)
      BY <2>1, ArriveInv DEF Arrive, Lasts
    <2>2. CASE Read(x) \/ Replay(x)
      BY <2>2, ReadInv, ReplayInv DEF Read, Replay, Lasts
    <2>3. CASE ClaimSend(x) \/ ClaimSignup(x) \/ ClaimConsent(x)
      BY <2>3, ClaimSendInv, ClaimSignupInv, ClaimConsentInv
    <2>4. CASE WriteSend(x) \/ WriteSignup(x) \/ WriteLogin(x)
      BY <2>4, ResultInv
    <2>5. CASE SendCode(x) \/ SignUp(x) \/ LogIn(x)
      BY <2>5, SendInv, SignUpInv, LogInInv DEF SendCode, SignUp, LogIn, Lasts
    <2>6. CASE Verify(x) \/ CreateGrant(x) \/ IssueCode(x) \/ RevokeGrant(x)
      BY <2>6, VerifyInv, CreateInv, IssueInv, RevokeInv
         DEF Verify, CreateGrant, IssueCode, RevokeGrant, Lasts
    <2>7. CASE Restore(x)
      BY <2>7, RestoreInv
    <2>8. CASE TryFails(x) \/ Complete(x) \/ CompleteReplyLost(x)
      BY <2>8, TryInv
    <2>9. CASE CommandFails(x) \/ ClaimReplyLost(x) \/ Crash(x) \/ Redirect(x)
      BY <2>9, EndInv
    <2> QED BY <1>2, <2>1, <2>2, <2>3, <2>4, <2>5, <2>6, <2>7, <2>8, <2>9
            DEF Step, Failure
  <1> QED BY <1>1, <1>2 DEF Next

\* So does a step that changes nothing.
LEMMA StutterInv == IInv /\ UNCHANGED vars => IInv'
  <1> SUFFICES ASSUME IInv, UNCHANGED vars PROVE IInv'
    OBVIOUS
  <1> USE DEF IInv
  <1>1. /\ UNCHANGED <<tx, txLive, cooling, seals, grants, codes, pc, local>>
        /\ UNCHANGED <<mails, windows, signups, doubtful, arrived>>
    BY DEF vars
  <1>2. TypeOK'
    BY <1>1 DEF TypeOK
  <1>3. ContentInv' /\ PlaceInv' /\ OwnerInv' /\ GrantInv' /\ SignupInv'
    BY <1>1, SameStep
  <1>6. MailInv'
    <2>1. Senders' = Senders
      BY <1>1 DEF Senders
    <2> QED BY <1>1, <2>1 DEF MailInv
  <1> QED BY <1>2, <1>3, <1>6

-----------------------------------------------------------------------------
(***************************************************************************)
(* The theorems.                                                           *)
(***************************************************************************)

\* The inductive invariant holds in every reachable state.
THEOREM Inductive == Spec => []IInv
  <1>1. IInv /\ [Next]_vars => IInv'
    BY NextInv, StutterInv
  <1> QED BY InitInv, <1>1, PTL DEF Spec

\* Every variable keeps its type.
THEOREM ConsentTypes == Spec => []TypeOK
  BY Inductive, PTL DEF IInv

\* However many consent forms are sent and whatever fails, a transaction has
\* one grant in force at most.
THEOREM OneConsentOneGrant == Spec => []OneGrantInForce
  BY Inductive, PTL DEF IInv, GrantInv

\* What a POST redirects with, the first time or repeated, is the grant on
\* record: its code is stored, and it is in force unless its recording was in
\* doubt, when the catch block may have revoked it.
THEOREM RedirectsAreBacked == Spec => []RedirectIsBacked
  <1>1. IInv => RedirectIsBacked
    BY DEF IInv, GrantInv, Recorded, OwnerInv, Owns, RedirectIsBacked
  <1> QED BY Inductive, <1>1, PTL

\* A registration is requested once, and one e-mail code in a window.
THEOREM SignupsHappenOnce == Spec => []SignupOnce
  <1>1. IInv => SignupOnce
    <2> SUFFICES ASSUME IInv PROVE SignupOnce
      OBVIOUS
    <2>1. Senders \in SUBSET Post
      BY DEF Senders
    <2>2. Cardinality(Senders) \in Nat /\ mails \in Nat /\ windows \in Nat
      BY <2>1, SendersFinite DEF IInv, TypeOK
    <2>3. mails <= windows + 1
      BY <2>2 DEF IInv, MailInv
    <2> QED BY <2>3 DEF IInv, SignupInv, SignupOnce
  <1> QED BY Inductive, <1>1, PTL

\* No write undoes another, not even the restore that brings an old ciphertext
\* back.
THEOREM WritesLast == Spec => NothingIsUndone
  <1>1. IInv /\ [Next]_vars =>
          [/\ tx.attempted => tx'.attempted
           /\ tx.completed => tx'.completed /\ tx'.code = tx.code
           /\ tx.session => tx'.session \/ tx'.completed]_tx
    BY NextInv DEF Lasts, vars
  <1> QED BY Inductive, <1>1, PTL DEF Spec, NothingIsUndone

-----------------------------------------------------------------------------
(***************************************************************************)
(* The transaction is a decision.                                          *)
(***************************************************************************)

\* A grant that is about to be created has only been named: it never ended.
NamedInv ==
  \A x \in Post : pc[x] = "create" => grants[local[x].grant] = "named"

\* Only the POST that moves changes its place and its variables.
LEMMA OneMoves ==
  ASSUME TypeOK, NEW x \in Post,
         (\E op \in Operations : Arrive(x, op)) \/ Step(x) \/ Failure(x)
  PROVE  OthersStay(x)
  <1> USE DEF TypeOK, OthersStay, Goto, Proceed, Reply, Catch
  <1>1. CASE \E op \in Operations : Arrive(x, op)
    BY <1>1 DEF Arrive
  <1>2. CASE Read(x) \/ Replay(x)
    BY <1>2 DEF Read, Replay
  <1>3. CASE ClaimSend(x) \/ ClaimSignup(x) \/ ClaimConsent(x)
    BY <1>3 DEF ClaimSend, ClaimSignup, ClaimConsent
  <1>4. CASE WriteSend(x) \/ WriteSignup(x) \/ WriteLogin(x)
    BY <1>4 DEF WriteSend, WriteSignup, WriteLogin
  <1>5. CASE SendCode(x) \/ SignUp(x) \/ LogIn(x)
    BY <1>5 DEF SendCode, SignUp, LogIn
  <1>6. CASE Verify(x) \/ CreateGrant(x) \/ IssueCode(x)
    BY <1>6 DEF Verify, CreateGrant, IssueCode
  <1>7. CASE Complete(x) \/ Redirect(x) \/ RevokeGrant(x) \/ Restore(x)
    BY <1>7 DEF Complete, Redirect, RevokeGrant, Restore
  <1>8. CASE Failure(x)
    BY <1>8 DEF Failure, CommandFails, ClaimReplyLost, TryFails,
                CompleteReplyLost, Crash
  <1> QED BY <1>1, <1>2, <1>3, <1>4, <1>5, <1>6, <1>7, <1>8 DEF Step

\* A POST comes to the creation by naming a grant, and the other grants stay
\* what they are in every step.
LEMMA GrantMoves ==
  ASSUME TypeOK, NEW x \in Post, Step(x) \/ Failure(x)
  PROVE  \/ UNCHANGED grants /\ pc'[x] # "create"
         \/ \E g \in GrantId :
              /\ grants[g] = "none" /\ grants' = [grants EXCEPT ![g] = "named"]
              /\ local'[x].grant = g
         \/ /\ \A g \in GrantId \ {local[x].grant} : grants'[g] = grants[g]
            /\ pc[x] \in {"create", "revoke"} /\ pc'[x] # "create"
  <1> USE DEF TypeOK, Goto, Proceed, Reply, Catch
  <1>1. CASE Read(x) \/ Replay(x)
    BY <1>1 DEF Read, Replay
  <1>2. CASE ClaimSend(x) \/ ClaimSignup(x) \/ ClaimConsent(x)
    BY <1>2 DEF ClaimSend, ClaimSignup, ClaimConsent
  <1>3. CASE WriteSend(x) \/ WriteSignup(x) \/ WriteLogin(x)
    BY <1>3 DEF WriteSend, WriteSignup, WriteLogin
  <1>4. CASE SendCode(x) \/ SignUp(x) \/ LogIn(x)
    BY <1>4 DEF SendCode, SignUp, LogIn
  <1>5. CASE Verify(x)
    <2>1. ASSUME NEW g \in GrantId, local' = [local EXCEPT ![x].grant = g]
          PROVE  local'[x].grant = g
      BY <2>1 DEF Locals
    <2> QED BY <1>5, <2>1 DEF Verify
  <1>6. CASE CreateGrant(x) \/ RevokeGrant(x)
    BY <1>6 DEF CreateGrant, RevokeGrant
  <1>7. CASE IssueCode(x)
    BY <1>7 DEF IssueCode
  <1>8. CASE Complete(x) \/ Redirect(x) \/ Restore(x)
    BY <1>8 DEF Complete, Redirect, Restore
  <1>9. CASE Failure(x)
    BY <1>9 DEF Failure, CommandFails, ClaimReplyLost, TryFails,
                CompleteReplyLost, Crash
  <1> QED BY <1>1, <1>2, <1>3, <1>4, <1>5, <1>6, <1>7, <1>8, <1>9 DEF Step

\* Every step keeps NamedInv.
LEMMA NamedStep == IInv /\ NamedInv /\ [Next]_vars => NamedInv'
  <1> SUFFICES ASSUME IInv, NamedInv, [Next]_vars PROVE NamedInv'
    OBVIOUS
  <1> USE DEF IInv
  <1>1. ASSUME NEW x \in Post, NEW op \in Operations, Arrive(x, op)
        PROVE  NamedInv'
    <2>1. grants' = grants /\ pc'[x] = "read"
      BY <1>1 DEF TypeOK, Arrive, Goto
    <2> QED BY <1>1, <2>1, OneMoves DEF NamedInv, OthersStay
  <1>2. ASSUME NEW x \in Post, Step(x) \/ Failure(x) PROVE NamedInv'
    <2>1. ASSUME NEW y \in Post, pc'[y] = "create"
          PROVE  grants'[local'[y].grant] = "named"
      <3>1. CASE y = x
        BY <1>2, <2>1, <3>1, GrantMoves DEF TypeOK
      <3>2. CASE y # x
        <4>1. pc[y] = "create" /\ local'[y] = local[y]
          BY <1>2, <2>1, <3>2, OneMoves DEF OthersStay
        <4> DEFINE g == local[y].grant
        <4>2. g \in GrantId /\ g # NoGrant /\ grants[g] = "named"
          BY <4>1, LocalTypes DEF NamedInv, GrantInv, Grants
        <4>3. pc[x] \in {"create", "revoke"} => g # local[x].grant
          BY <3>2, <4>1, <4>2 DEF GrantInv, GrantsDiffer
        <4> QED BY <1>2, <4>1, <4>2, <4>3, GrantMoves DEF TypeOK
      <3> QED BY <3>1, <3>2
    <2> QED BY <2>1 DEF NamedInv
  <1>3. CASE Expire \/ CoolDown \/ UNCHANGED vars
    BY <1>3 DEF NamedInv, Expire, CoolDown, vars
  <1> QED BY <1>1, <1>2, <1>3 DEF Next

\* What leaves the stage, the grants, the codes and the registrations alone
\* does not move the decision.
LEMMA DecisionStutters ==
  ASSUME UNCHANGED <<txLive, grants, codes, signups, doubtful>>,
         tx'.completed = tx.completed, tx'.processing = tx.processing,
         tx'.completed \/ tx'.processing \/ tx'.session = tx.session,
         tx'.code = tx.code
  PROVE  UNCHANGED Decision!decisionVars
  BY DEF Decision!decisionVars, Stage, GrantsThatAre

\* Claiming the consent begins a decision.
LEMMA ClaimDecides ==
  ASSUME IInv, NEW x \in Post, ClaimConsent(x)
  PROVE  Decision!Decide \/ UNCHANGED Decision!decisionVars
  <1> USE DEF IInv
  <1>0. UNCHANGED <<txLive, grants, codes, signups, doubtful>> /\ pc[x] = "claimConsent"
    BY DEF ClaimConsent
  <1> DEFINE next == [local[x].raw EXCEPT !.processing = TRUE]
  <1>1. CASE Cas(local[x].raw.ver, next)
    <2>1. /\ next \in Tx /\ next.processing
          /\ next.completed = local[x].raw.completed
          /\ next.session = local[x].raw.session
          /\ next.code = local[x].raw.code
      BY LocalTypes DEF Tx
    <2>2. txLive /\ Past(x) /\ tx.ver = local[x].raw.ver
      BY <1>0, <1>1 DEF Cas, Past
    <2> HIDE DEF next
    <2>3. tx = local[x].raw
      BY <2>2, HeldRecord
    <2>4. /\ tx'.processing /\ tx'.completed = tx.completed
          /\ tx'.session = tx.session /\ tx'.code = tx.code
      BY <1>1, <2>1, <2>3, SealedShape
    <2>5. ~tx.processing /\ ~tx.completed /\ tx.session
      BY <1>0, <2>2, <2>3 DEF PlaceInv, Placed
    <2>6. Stage = "ready" /\ Stage' = "deciding"
      BY <2>4, <2>5 DEF Stage
    <2> QED BY <1>0, <2>2, <2>4, <2>6 DEF Decision!Decide, GrantsThatAre
  <1>2. CASE ~Cas(local[x].raw.ver, next)
    BY <1>0, <1>2, DecisionStutters DEF ClaimConsent, CasFails
  <1> QED BY <1>1, <1>2

\* The other claims are no part of the decision.
LEMMA ClaimsStutter ==
  ASSUME IInv, NEW x \in Post, ClaimSend(x) \/ ClaimSignup(x)
  PROVE  UNCHANGED Decision!decisionVars
  <1> USE DEF IInv
  <1>0. /\ UNCHANGED <<txLive, grants, codes, signups, doubtful>>
        /\ pc[x] \in {"claimSend", "claimSignup"}
    BY DEF ClaimSend, ClaimSignup
  <1>1. ASSUME NEW next \in Tx, Cas(local[x].raw.ver, next),
               next.completed = local[x].raw.completed,
               next.processing = local[x].raw.processing,
               next.session = local[x].raw.session,
               next.code = local[x].raw.code
        PROVE  UNCHANGED Decision!decisionVars
    <2>1. Past(x) /\ tx.ver = local[x].raw.ver
      BY <1>0, <1>1 DEF Cas, Past
    <2>2. tx = local[x].raw
      BY <2>1, HeldRecord
    <2> QED BY <1>0, <1>1, <2>2, SealedShape, DecisionStutters
  <1>2. CASE CasFails(local[x].raw.ver)
    BY <1>0, <1>2, DecisionStutters DEF CasFails
  <1>3. local[x].raw \in Tx
    BY LocalTypes
  <1>4. CASE ClaimSend(x)
    BY <1>1, <1>2, <1>3, <1>4 DEF ClaimSend
  <1>5. CASE ClaimSignup(x)
    <2> DEFINE next == [local[x].raw EXCEPT !.attempted = TRUE]
    <2>1. /\ next \in Tx
          /\ next.completed = local[x].raw.completed
          /\ next.processing = local[x].raw.processing
          /\ next.session = local[x].raw.session
          /\ next.code = local[x].raw.code
      BY <1>3 DEF Tx
    <2> HIDE DEF next
    <2>2. Cas(local[x].raw.ver, next) \/ CasFails(local[x].raw.ver)
      BY <1>5 DEF ClaimSignup, next
    <2> QED BY <1>1, <1>2, <2>1, <2>2
  <1> QED BY <1>4, <1>5

\* What a POST knows of a record it holds by its claim.
LEMMA ClaimedRecord ==
  ASSUME IInv, NEW x \in Post, Claimer(x), tx.ver = local[x].claimed
  PROVE  /\ tx.session = local[x].raw.session
         /\ tx.completed = local[x].raw.completed
         /\ tx.code = local[x].raw.code
         /\ tx.processing <=> pc[x] \in Consenting
  <1> USE DEF IInv
  <1>1. tx = Wrote(x)
    BY HeldRecord
  <1>2. ~local[x].raw.processing
    BY DEF PlaceInv, Placed, Past, Claimer
  <1> QED BY <1>1, <1>2, WroteFields

\* A result that is written is a sign-in, or nothing the decision knows.
LEMMA ResultSignsIn ==
  ASSUME IInv, NEW x \in Post, WriteSend(x) \/ WriteSignup(x) \/ WriteLogin(x)
  PROVE  Decision!SignIn \/ UNCHANGED Decision!decisionVars
  <1> USE DEF IInv
  <1>0. /\ UNCHANGED <<txLive, grants, codes, signups, doubtful>>
        /\ pc[x] \in {"writeSend", "writeSignup", "writeLogin"}
    BY DEF WriteSend, WriteSignup, WriteLogin
  <1>1. ASSUME NEW v, NEW next \in Tx, Cas(v, next),
               \/ pc[x] = "writeLogin" /\ v = local[x].raw.ver
               \/ pc[x] # "writeLogin" /\ v = local[x].claimed,
               next.completed = local[x].raw.completed,
               next.processing = local[x].raw.processing,
               next.code = local[x].raw.code
        PROVE  Decision!SignIn \/ UNCHANGED Decision!decisionVars
    <2>1. ~local[x].raw.processing /\ ~local[x].raw.session
      BY <1>0 DEF PlaceInv, Placed, Past
    <2>2. txLive /\ tx.ver = v
      BY <1>1 DEF Cas
    <2>3. /\ tx.session = local[x].raw.session
          /\ tx.completed = local[x].raw.completed
          /\ tx.code = local[x].raw.code
          /\ ~tx.processing
      <3>1. CASE pc[x] = "writeLogin"
        <4>1. tx = local[x].raw
          BY <1>1, <2>2, <3>1, HeldRecord DEF Past
        <4> QED BY <2>1, <4>1
      <3>2. CASE pc[x] # "writeLogin"
        <4>1. Claimer(x) /\ tx.ver = local[x].claimed /\ pc[x] \notin Consenting
          BY <1>0, <1>1, <2>2, <3>2 DEF Claimer
        <4> QED BY <4>1, ClaimedRecord
      <3> QED BY <3>1, <3>2
    <2>4. /\ tx'.completed = tx.completed /\ ~tx'.processing
          /\ tx'.session = next.session /\ tx'.code = tx.code
      BY <1>1, <2>1, <2>3, SealedShape
    <2>5. tx'.session \in BOOLEAN /\ tx.processing \in BOOLEAN
          /\ tx'.processing \in BOOLEAN
      BY <1>1, SealedShape DEF TypeOK, Tx
    <2>6. CASE ~tx.completed /\ tx'.session
      <3>1. Stage = "signing" /\ Stage' = "ready"
        BY <2>1, <2>3, <2>4, <2>6 DEF Stage
      <3> QED BY <1>0, <2>2, <2>4, <3>1 DEF Decision!SignIn, GrantsThatAre
    <2>7. CASE tx.completed \/ ~tx'.session
      <3>1. Stage' = Stage
        BY <2>1, <2>3, <2>4, <2>7 DEF Stage
      <3> QED BY <1>0, <2>4, <3>1 DEF Decision!decisionVars, GrantsThatAre
    <2> QED BY <2>6, <2>7
  <1>2. CASE UNCHANGED <<tx, seals>>
    BY <1>0, <1>2, DecisionStutters
  <1>3. local[x].raw \in Tx /\ local[x].ok \in BOOLEAN
    BY LocalTypes
  <1>4. CASE WriteSend(x)
    <2> DEFINE next == [local[x].raw EXCEPT !.email = local[x].ok]
    <2>1. /\ next \in Tx
          /\ next.completed = local[x].raw.completed
          /\ next.processing = local[x].raw.processing
          /\ next.code = local[x].raw.code
      BY <1>3 DEF Tx
    <2>2. pc[x] = "writeSend" /\ (Cas(local[x].claimed, next) \/ UNCHANGED <<tx, seals>>)
      BY <1>4 DEF WriteSend, CasFails
    <2> HIDE DEF next
    <2> QED BY <1>1, <1>2, <2>1, <2>2
  <1>5. CASE WriteSignup(x)
    <2> DEFINE next == [local[x].raw EXCEPT !.attempted = TRUE,
                                            !.session = local[x].ok]
    <2>1. /\ next \in Tx
          /\ next.completed = local[x].raw.completed
          /\ next.processing = local[x].raw.processing
          /\ next.code = local[x].raw.code
      BY <1>3 DEF Tx
    <2>2. pc[x] = "writeSignup" /\ (Cas(local[x].claimed, next) \/ UNCHANGED <<tx, seals>>)
      BY <1>5 DEF WriteSignup, CasFails
    <2> HIDE DEF next
    <2> QED BY <1>1, <1>2, <2>1, <2>2
  <1>6. CASE WriteLogin(x)
    <2> DEFINE next == [local[x].raw EXCEPT !.session = local[x].ok]
    <2>1. /\ next \in Tx
          /\ next.completed = local[x].raw.completed
          /\ next.processing = local[x].raw.processing
          /\ next.code = local[x].raw.code
      BY <1>3 DEF Tx
    <2>2. pc[x] = "writeLogin" /\ (Cas(local[x].raw.ver, next) \/ UNCHANGED <<tx, seals>>)
      BY <1>6 DEF WriteLogin, CasFails
    <2> HIDE DEF next
    <2> QED BY <1>1, <1>2, <2>1, <2>2
  <1> QED BY <1>4, <1>5, <1>6

\* A POST inside its try block holds a claimed consent.
LEMMA TryDecides ==
  ASSUME IInv, NEW x \in Post, pc[x] \in Try
  PROVE  Stage = "deciding"
  <1> USE DEF IInv
  <1>1. Claimer(x) /\ tx.ver = local[x].claimed
    BY DEF Claimer, OwnerInv, Owns
  <1>2. tx.processing
    BY <1>1, ClaimedRecord
  <1> QED BY <1>2 DEF PlaceInv, Stage

\* The completed record settles the decision for the grant in force.
LEMMA CompletedSettles ==
  ASSUME IInv, NEW x \in Post, pc[x] = "complete",
         Cas(local[x].claimed, Completed(x)),
         UNCHANGED <<txLive, grants, codes, signups>>, doubtful' \in BOOLEAN
  PROVE  Decision!Settle
  <1> USE DEF IInv
  <1> DEFINE g == local[x].grant
  <1>1. txLive /\ tx.ver = local[x].claimed
    BY DEF Cas
  <1>2. Stage = "deciding"
    BY TryDecides
  <1>3. Completed(x) \in Tx /\ Completed(x).completed /\ Completed(x).code = g
    <2>1. local[x].raw \in Tx /\ g \in GrantId \union {NoGrant}
      BY LocalTypes
    <2> QED BY <2>1 DEF Completed, Tx
  <1>4. tx'.completed /\ tx'.code = g
    BY <1>3, SealedShape
  <1>5. g \in GrantId \union {NoGrant}
    BY LocalTypes
  <1>6. \A h \in GrantId : grants[h] = "active" => h = g
    BY <1>1 DEF GrantInv, Grants
  <1>7. g # NoGrant => grants[g] = "active" /\ g \in codes
    BY DEF GrantInv, Grants
  <1>8. GrantsThatAre("active") = {g} \ {NoGrant}
    BY <1>5, <1>6, <1>7, ConstantsOK DEF GrantsThatAre
  <1>9. GrantsThatAre("active") \subseteq codes
    BY <1>7, <1>8
  <1>10. Stage' = "decided"
    BY <1>4 DEF Stage
  <1>11. UNCHANGED <<GrantsThatAre("active"), GrantsThatAre("revoked")>>
    BY DEF GrantsThatAre
  <1> QED
    BY <1>1, <1>2, <1>4, <1>5, <1>8, <1>9, <1>10, <1>11 DEF Decision!Settle

\* A record that is given back may be decided on again, with nothing in force.
LEMMA RestoreGivesBack ==
  ASSUME IInv, NEW x \in Post, Restore(x)
  PROVE  Decision!GiveBack \/ UNCHANGED Decision!decisionVars
  <1> USE DEF IInv
  <1>0. UNCHANGED <<txLive, grants, codes, signups, doubtful>> /\ pc[x] = "restore"
    BY DEF Restore
  <1>1. CASE tx' = tx
    BY <1>0, <1>1, DecisionStutters
  <1>2. CASE txLive /\ tx.ver = local[x].claimed /\ tx' = local[x].raw
    <2>1. Past(x) /\ Claimer(x)
      BY <1>0 DEF Past, Claimer
    <2>2. /\ ~local[x].raw.processing /\ ~local[x].raw.completed
          /\ local[x].raw.session
      BY <1>0, <2>1 DEF PlaceInv, Placed
    <2>3. tx.processing /\ ~tx.completed /\ tx'.code = tx.code
      BY <1>0, <1>2, <2>1, <2>2, ClaimedRecord
    <2>4. Stage = "deciding" /\ Stage' = "ready"
      BY <1>2, <2>2, <2>3 DEF Stage
    <2>5. GrantsThatAre("active") = {}
      BY <1>0, <1>2 DEF GrantInv, Grants, NoneActive, GrantsThatAre
    <2> QED BY <1>0, <1>2, <2>3, <2>4, <2>5 DEF Decision!GiveBack, GrantsThatAre
  <1> QED BY <1>1, <1>2 DEF Restore

\* Naming a grant is no part of the decision.
LEMMA VerifyStutters ==
  ASSUME IInv, NEW x \in Post, Verify(x)
  PROVE  UNCHANGED Decision!decisionVars
  <1> USE DEF IInv
  <1>1. UNCHANGED <<tx, txLive, codes, signups, doubtful>>
    BY DEF Verify
  <1>2. \A g \in GrantId :
          /\ grants'[g] = "active" <=> grants[g] = "active"
          /\ grants'[g] = "revoked" <=> grants[g] = "revoked"
    BY DEF TypeOK, Verify
  <1>3. UNCHANGED <<GrantsThatAre("active"), GrantsThatAre("revoked")>>
    BY <1>2 DEF GrantsThatAre
  <1> QED BY <1>1, <1>3 DEF Decision!decisionVars, Stage

\* The grant of the decision comes into force.
LEMMA CreateGrants ==
  ASSUME IInv, NamedInv, NEW x \in Post, CreateGrant(x)
  PROVE  Decision!Grant
  <1> USE DEF IInv
  <1> DEFINE g == local[x].grant
  <1>0. /\ pc[x] = "create" /\ UNCHANGED <<tx, txLive, codes, signups, doubtful>>
        /\ grants' = [grants EXCEPT ![g] = "active"]
    BY DEF CreateGrant
  <1>1. Stage = "deciding"
    BY <1>0, TryDecides
  <1>2. g \in GrantId /\ NoneActive /\ grants[g] = "named"
    BY <1>0, LocalTypes DEF GrantInv, Grants, NamedInv
  <1>3. \A h \in GrantId :
          /\ grants'[h] = "active" <=> h = g
          /\ grants'[h] = "revoked" <=> grants[h] = "revoked"
    BY <1>0, <1>2 DEF TypeOK, NoneActive
  <1>4. /\ GrantsThatAre("active") = {} /\ GrantsThatAre("active")' = {g}
        /\ UNCHANGED GrantsThatAre("revoked")
        /\ g \in GrantId \ GrantsThatAre("revoked")
    BY <1>2, <1>3 DEF NoneActive, GrantsThatAre
  <1> QED BY <1>0, <1>1, <1>4 DEF Decision!Grant, Stage

\* Its code is stored.
LEMMA IssueCodes ==
  ASSUME IInv, NEW x \in Post, IssueCode(x)
  PROVE  Decision!Code \/ UNCHANGED Decision!decisionVars
  <1> USE DEF IInv
  <1> DEFINE g == local[x].grant
  <1>0. pc[x] = "issue" /\ UNCHANGED <<tx, txLive, grants, signups, doubtful>>
    BY DEF IssueCode
  <1>1. CASE UNCHANGED codes
    BY <1>0, <1>1, DecisionStutters
  <1>2. CASE codes' = codes \union {g}
    <2>1. Stage = "deciding"
      BY <1>0, TryDecides
    <2>2. g \in GrantId /\ grants[g] = "active"
      BY <1>0, LocalTypes DEF GrantInv, Grants
    <2>3. GrantsThatAre("active") = {g}
      BY <2>2 DEF GrantInv, OneGrantInForce, GrantsThatAre
    <2>4. Stage' = Stage
      BY <1>0 DEF Stage
    <2>5. UNCHANGED <<GrantsThatAre("active"), GrantsThatAre("revoked")>>
      BY <1>0 DEF GrantsThatAre
    <2>6. codes' = codes \union GrantsThatAre("active") /\ GrantsThatAre("active") # {}
      BY <1>2, <2>3
    <2> QED BY <1>0, <2>1, <2>4, <2>5, <2>6 DEF Decision!Code
  <1> QED BY <1>1, <1>2 DEF IssueCode

\* The catch block takes the grant back, if it came into force.
LEMMA RevokeWithdraws ==
  ASSUME IInv, NEW x \in Post, RevokeGrant(x)
  PROVE  Decision!Withdraw \/ UNCHANGED Decision!decisionVars
  <1> USE DEF IInv
  <1> DEFINE g == local[x].grant
  <1>0. /\ pc[x] = "revoke" /\ UNCHANGED <<tx, txLive, codes, signups, doubtful>>
        /\ grants' = [grants EXCEPT ![g] = IF @ = "active" THEN "revoked" ELSE @]
    BY DEF RevokeGrant
  <1>1. g \in GrantId
    BY <1>0, LocalTypes DEF GrantInv, Grants
  <1>2. CASE grants[g] = "active"
    <2>1. GrantsThatAre("active") = {g}
      BY <1>1, <1>2 DEF GrantInv, OneGrantInForce, GrantsThatAre
    <2>2. \A h \in GrantId :
            /\ grants'[h] # "active"
            /\ grants'[h] = "revoked" <=> grants[h] = "revoked" \/ h = g
      BY <1>0, <1>1, <1>2 DEF TypeOK, GrantInv, OneGrantInForce
    <2>3. /\ GrantsThatAre("active")' = {}
          /\ GrantsThatAre("revoked")' = GrantsThatAre("revoked") \union {g}
      BY <1>1, <2>2 DEF GrantsThatAre
    <2>4. tx.completed \/ (tx.processing /\ ~tx.completed)
      BY <1>1, <1>2 DEF GrantInv, NoneActive
    <2>5. tx.completed => doubtful
      BY <1>0, <1>1, <1>2, ConstantsOK DEF GrantInv, Recorded, Grants
    <2>6. Stage = "deciding" \/ (Stage = "decided" /\ doubtful)
      BY <2>4, <2>5 DEF Stage
    <2>7. Stage' = Stage
      BY <1>0 DEF Stage
    <2> QED BY <1>0, <2>1, <2>3, <2>6, <2>7 DEF Decision!Withdraw
  <1>3. CASE grants[g] # "active"
    <2>1. grants' = grants
      BY <1>0, <1>1, <1>3 DEF TypeOK
    <2> QED BY <1>0, <2>1, DecisionStutters
  <1> QED BY <1>2, <1>3

\* A registration is asked for once.
LEMMA SignUpRegisters ==
  ASSUME IInv, NEW x \in Post, SignUp(x)
  PROVE  Decision!Register
  <1> USE DEF IInv
  <1>1. /\ UNCHANGED <<tx, txLive, grants, codes, doubtful>> /\ pc[x] = "signup"
        /\ signups' = signups + 1
    BY DEF SignUp
  <1>2. signups = 0 /\ signups' = 1
    BY <1>1 DEF SignupInv
  <1>3. UNCHANGED <<Stage, GrantsThatAre("active"), GrantsThatAre("revoked")>>
    BY <1>1 DEF Stage, GrantsThatAre
  <1>4. ~(signups > 0) /\ (signups' > 0) = TRUE
    BY <1>2
  <1> QED BY <1>1, <1>3, <1>4 DEF Decision!Register

\* Every step is a step of the decision, or none.
LEMMA StepMapsToDecision ==
  IInv /\ NamedInv /\ [Next]_vars => [Decision!Next]_Decision!decisionVars
  <1> SUFFICES ASSUME IInv, NamedInv, [Next]_vars
               PROVE  Decision!Next \/ UNCHANGED Decision!decisionVars
    OBVIOUS
  <1> USE DEF Decision!Next
  <1>1. ASSUME NEW x \in Post,
               (\E op \in Operations : Arrive(x, op)) \/ Step(x) \/ Failure(x)
        PROVE  Decision!Next \/ UNCHANGED Decision!decisionVars
    <2>1. CASE \E op \in Operations : Arrive(x, op)
      BY <2>1, DecisionStutters DEF Arrive
    <2>2. CASE \/ Read(x) \/ Replay(x) \/ SendCode(x) \/ LogIn(x)
               \/ Redirect(x) \/ CommandFails(x) \/ ClaimReplyLost(x) \/ TryFails(x) \/ Crash(x)
      BY <2>2, DecisionStutters
         DEF Read, Replay, SendCode, LogIn, Redirect, CommandFails,
             ClaimReplyLost, TryFails, Crash
    <2>3. CASE ClaimSend(x) \/ ClaimSignup(x)
      BY <2>3, ClaimsStutter
    <2>4. CASE WriteSend(x) \/ WriteSignup(x) \/ WriteLogin(x)
      BY <2>4, ResultSignsIn
    <2>5. CASE ClaimConsent(x)
      BY <2>5, ClaimDecides
    <2>6. CASE SignUp(x)
      BY <2>6, SignUpRegisters
    <2>7. CASE Verify(x) \/ CreateGrant(x) \/ IssueCode(x) \/ RevokeGrant(x)
      BY <2>7, VerifyStutters, CreateGrants, IssueCodes, RevokeWithdraws
    <2>8. CASE Complete(x) \/ CompleteReplyLost(x)
      <3>1. /\ UNCHANGED <<txLive, grants, codes, signups>> /\ pc[x] = "complete"
            /\ doubtful' \in BOOLEAN
        BY <2>8 DEF IInv, TypeOK, Complete, CompleteReplyLost
      <3>2. CASE Cas(local[x].claimed, Completed(x))
        BY <3>1, <3>2, CompletedSettles
      <3>3. CASE CasFails(local[x].claimed) /\ doubtful' = doubtful
        BY <3>1, <3>3, DecisionStutters DEF CasFails
      <3> QED BY <2>8, <3>2, <3>3 DEF Complete, CompleteReplyLost
    <2>9. CASE Restore(x)
      BY <2>9, RestoreGivesBack
    <2> QED BY <1>1, <2>1, <2>2, <2>3, <2>4, <2>5, <2>6, <2>7, <2>8, <2>9
            DEF Step, Failure
  <1>2. CASE Expire
    <2>1. Decision!Expire
      BY <1>2 DEF Expire, Decision!Expire, Stage, GrantsThatAre
    <2> QED BY <2>1
  <1>3. CASE CoolDown \/ UNCHANGED vars
    BY <1>3, DecisionStutters DEF CoolDown, vars
  <1> QED BY <1>1, <1>2, <1>3 DEF Next

\* The transaction in Redis and its grants move on as one decision:
\* BrowserConsent implements ConsentDecision.
THEOREM TransactionIsADecision == Spec => ImplementsDecision
  <1>1. ASSUME Init PROVE NamedInv
    BY <1>1 DEF Init, NamedInv
  <1>2. ASSUME Init PROVE Decision!Init
    <2>1. GrantsThatAre("active") = {} /\ GrantsThatAre("revoked") = {}
      BY <1>2 DEF Init, GrantsThatAre
    <2>2. (signups > 0) = FALSE
      BY <1>2 DEF Init
    <2> QED BY <1>2, <2>1, <2>2 DEF Init, Decision!Init, Stage, FreshTx
  <1>3. Spec => []NamedInv
    BY <1>1, NamedStep, Inductive, PTL DEF Spec
  <1>4. Spec => [][Decision!Next]_Decision!decisionVars
    BY <1>3, Inductive, StepMapsToDecision, PTL DEF Spec
  <1> QED BY <1>2, <1>4, PTL DEF Spec, ImplementsDecision, Decision!Spec

-----------------------------------------------------------------------------
(***************************************************************************)
(* Retries, as long as the stores answer.                                  *)
(***************************************************************************)

\* A POST inside the try block or its catch block that holds the record.
Keeps(x) == pc[x] \in Consenting /\ local[x].claimed = tx.ver

\* A claim holds the new record, and every other write, a restore among them,
\* leaves no consent under way.
LEMMA WritesKeepOrFree ==
  ASSUME IInv, NEW x \in Post, Step(x), tx' # tx
  PROVE  Keeps(x)' \/ ~tx'.processing
  <1> USE DEF IInv
  <1>0. local[x].raw \in Tx /\ seals \in Nat /\ local[x].op \in Operations
    BY LocalTypes
  <1>1. CASE ClaimConsent(x)
    <2> DEFINE p == IF local[x].op = "deny" THEN "complete" ELSE "verify"
               next == [local[x].raw EXCEPT !.processing = TRUE]
    <2>1. /\ Cas(local[x].raw.ver, next) /\ Goto(x, p)
          /\ local' = [local EXCEPT ![x].claimed = seals + 1]
      BY <1>1 DEF ClaimConsent, CasFails
    <2>2. tx'.ver = seals + 1
      BY <1>0, <2>1 DEF Cas, Tx
    <2>3. pc'[x] = p /\ local'[x].claimed = seals + 1
      BY <2>1 DEF Goto, TypeOK, Locals
    <2> QED BY <2>2, <2>3 DEF Keeps, Consenting, Try
  <1>2. CASE ClaimSend(x) \/ ClaimSignup(x) \/ WriteSend(x) \/ WriteSignup(x)
               \/ WriteLogin(x) \/ Restore(x)
    <2>1. ~local[x].raw.processing
      BY <1>2 DEF PlaceInv, Placed, Past, ClaimSend, ClaimSignup, WriteSend,
                  WriteSignup, WriteLogin, Restore
    <2>2. tx' \in
            {local[x].raw, [local[x].raw EXCEPT !.ver = seals + 1],
             [local[x].raw EXCEPT !.email = local[x].ok, !.ver = seals + 1],
             [local[x].raw EXCEPT !.attempted = TRUE, !.ver = seals + 1],
             [local[x].raw EXCEPT !.attempted = TRUE, !.session = local[x].ok,
                                  !.ver = seals + 1],
             [local[x].raw EXCEPT !.session = local[x].ok, !.ver = seals + 1]}
      BY <1>2 DEF ClaimSend, ClaimSignup, WriteSend, WriteSignup, WriteLogin,
                  Restore, Cas, CasFails
    <2> QED BY <1>0, <2>1, <2>2 DEF Tx
  <1>3. CASE Complete(x)
    <2>1. tx' = [Completed(x) EXCEPT !.ver = seals + 1]
      BY <1>3 DEF Complete, Cas, CasFails
    <2> QED BY <1>0, <2>1 DEF Completed, Tx
  <1>4. CASE Read(x) \/ Replay(x) \/ SendCode(x) \/ SignUp(x) \/ LogIn(x)
               \/ Verify(x) \/ CreateGrant(x) \/ IssueCode(x) \/ Redirect(x) \/ RevokeGrant(x)
    BY <1>4 DEF Read, Replay, SendCode, SignUp, LogIn, Verify, CreateGrant,
                IssueCode, Redirect, RevokeGrant
  <1> QED BY <1>1, <1>2, <1>3, <1>4 DEF Step

\* A step that leaves the record alone is no way out of the try block and its
\* catch block for the POST that holds a claimed consent.
LEMMA KeeperStays ==
  ASSUME IInv, NEW x \in Post, Step(x), tx' = tx, Keeps(x), tx.processing, txLive
  PROVE  Keeps(x)'
  <1> USE DEF IInv
  <1>1. pc[x] \in Consenting /\ tx.ver = local[x].claimed /\ tx.ver \in Nat
    BY LocalTypes DEF Keeps
  <1>2. /\ ~Read(x) /\ ~Replay(x) /\ ~ClaimSend(x) /\ ~SendCode(x) /\ ~WriteSend(x)
        /\ ~ClaimSignup(x) /\ ~SignUp(x) /\ ~WriteSignup(x) /\ ~LogIn(x)
        /\ ~WriteLogin(x) /\ ~ClaimConsent(x) /\ ~Redirect(x)
    BY <1>1 DEF Consenting, Try, Catching, Read, Replay, ClaimSend, SendCode, WriteSend,
                ClaimSignup, SignUp, WriteSignup, LogIn, WriteLogin,
                ClaimConsent, Redirect
  <1>3. CASE Verify(x)
    <2>1. pc'[x] \in Consenting
      BY <1>3 DEF Verify, Catch, Proceed, Goto, TypeOK, Consenting, Try, Catching
    <2>2. local'[x].claimed = local[x].claimed
      BY <1>3 DEF Verify, Catch, Proceed, TypeOK, Locals
    <2> QED BY <1>1, <2>1, <2>2 DEF Keeps
  <1>4. CASE CreateGrant(x) \/ IssueCode(x) \/ RevokeGrant(x)
    BY <1>1, <1>4 DEF CreateGrant, IssueCode, RevokeGrant, Catch, Proceed, Goto,
                      TypeOK, Consenting, Try, Catching, Keeps
  <1>5. ~Complete(x)
    <2>1. seals \in Nat /\ tx.ver <= seals /\ local[x].raw \in Tx
      BY LocalTypes DEF ContentInv
    <2>2. ASSUME Cas(local[x].claimed, Completed(x)) PROVE FALSE
      <3>1. tx'.ver = seals + 1
        BY <2>1, <2>2 DEF Cas, Completed, Tx
      <3> QED BY <2>1, <3>1
    <2> QED BY <1>1, <2>2 DEF Complete, CasFails
  <1>6. ~Restore(x)
    <2>1. ASSUME Restore(x) PROVE tx = local[x].raw /\ Past(x)
      BY <1>1, <2>1 DEF Restore, Past
    <2> QED BY <2>1 DEF PlaceInv, Placed
  <1> QED BY <1>2, <1>3, <1>4, <1>5, <1>6 DEF Step

\* When no store and no process fails, a consent under way stays in the hands
\* of a POST in every step.
LEMMA RetryStep ==
  ASSUME Faults = {}
  PROVE  IInv /\ RetryStaysPossible /\ [Next]_vars => RetryStaysPossible'
  <1> SUFFICES ASSUME IInv, RetryStaysPossible, [Next]_vars,
                      tx'.processing, txLive'
               PROVE  \E y \in Post : Keeps(y)'
    BY DEF RetryStaysPossible, Keeps, Consenting
  <1> USE DEF IInv
  <1>1. tx.processing /\ txLive => \E y \in Post : Keeps(y)
    BY DEF RetryStaysPossible, Keeps, Consenting
  <1>2. ASSUME NEW x \in Post, NEW op \in Operations, Arrive(x, op)
        PROVE  \E y \in Post : Keeps(y)'
    <2>1. PICK y \in Post : Keeps(y)
      BY <1>1, <1>2 DEF Arrive
    <2>2. y # x
      BY <1>2, <2>1 DEF Arrive, Keeps, Consenting, Try, Catching
    <2>3. OthersStay(x) /\ tx' = tx
      BY <1>2, OneMoves DEF Arrive
    <2> QED BY <2>1, <2>2, <2>3 DEF OthersStay, Keeps
  <1>3. ASSUME NEW x \in Post, Step(x) PROVE \E y \in Post : Keeps(y)'
    <2>1. CASE tx' # tx
      BY <1>3, <2>1, WritesKeepOrFree
    <2>2. CASE tx' = tx
      <3>1. txLive
        BY <1>3 DEF Step, Read, Replay, ClaimSend, SendCode, WriteSend, ClaimSignup,
                    SignUp, WriteSignup, LogIn, WriteLogin, ClaimConsent, Verify,
                    CreateGrant, IssueCode, Complete, Redirect, RevokeGrant, Restore
      <3>2. PICK y \in Post : Keeps(y)
        BY <1>1, <2>2, <3>1
      <3>3. CASE y = x
        BY <1>3, <2>2, <3>1, <3>2, <3>3, KeeperStays
      <3>4. CASE y # x
        <4>1. OthersStay(x)
          BY <1>3, OneMoves
        <4> QED BY <2>2, <3>2, <3>4, <4>1 DEF OthersStay, Keeps
      <3> QED BY <3>3, <3>4
    <2> QED BY <2>1, <2>2
  <1>4. ASSUME NEW x \in Post, Failure(x) PROVE FALSE
    BY <1>4 DEF Failure, CommandFails, ClaimReplyLost, TryFails,
                CompleteReplyLost, Crash
  <1>5. CASE Expire \/ CoolDown \/ UNCHANGED vars
    BY <1>1, <1>5 DEF Expire, CoolDown, vars, Keeps
  <1> QED BY <1>2, <1>3, <1>4, <1>5 DEF Next

\* Whatever the backend answers, and however many POSTs race, a consent under
\* way is in the hands of a POST that will complete it or give it back: what the
\* comment in /consent says of failures holds of those upstream.
THEOREM RetriesSurviveUpstream ==
  ASSUME Faults = {} PROVE Spec => []RetryStaysPossible
  <1>1. ASSUME Init PROVE RetryStaysPossible
    BY <1>1 DEF Init, RetryStaysPossible, FreshTx
  <1> QED BY <1>1, RetryStep, Inductive, PTL DEF Spec
=============================================================================
