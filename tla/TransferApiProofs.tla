------------------------- MODULE TransferApiProofs -------------------------
(***************************************************************************)
(* Proofs about the requests of TransferApi as they are written: what the  *)
(* fingerprint takes for a retry asked for the same transfer, and a retry  *)
(* with its members in another order is taken for one, whatever the        *)
(* bodies.                                                                 *)
(***************************************************************************)
EXTENDS TransferApi, LedgerHistoryProofs

-----------------------------------------------------------------------------
(* Decoding.                                                                *)

(* A finite set of integers has a largest member, and Max is it. *)
LEMMA LargestMember ==
    ASSUME NEW S, IsFiniteSet(S), S \subseteq Int, S # {}
    PROVE  W!Max(S) \in S /\ \A y \in S : W!Max(S) >= y
<1> DEFINE B == {s \in SUBSET S : s # {} /\ ~ \E x \in s : \A y \in s : x >= y}
<1>1. B = {}
  <2> SUFFICES ASSUME B # {} PROVE FALSE
    OBVIOUS
  <2>1. PICK m \in B : \A t \in SUBSET m : t # m => t \notin B
    <3>1. B \subseteq SUBSET S /\ B # {}
      OBVIOUS
    <3> HIDE DEF B
    <3> QED BY <3>1, SmallestSubset
  <2>2. PICK x \in m : TRUE
    BY <2>1
  <2>3. CASE m = {x}
    BY <2>1, <2>3
  <2>4. CASE m # {x}
    <3>0. m \ {x} \in SUBSET S /\ m \ {x} # {} /\ m \ {x} \notin B
      <4>1. m \in SUBSET S /\ m \ {x} \in SUBSET m /\ m \ {x} # m /\ m \ {x} # {}
        BY <2>1, <2>2, <2>4
      <4> HIDE DEF B
      <4> QED BY <2>1, <4>1
    <3>1. PICK y \in m \ {x} : \A z \in m \ {x} : y >= z
      BY <3>0
    <3>2. x \in Int /\ y \in Int /\ \A z \in m : z \in Int
      BY <2>1, <2>2, <3>1
    <3>3. CASE x >= y
      BY <2>1, <2>2, <3>1, <3>2, <3>3
    <3>4. CASE y >= x
      BY <2>1, <2>2, <3>1, <3>2, <3>4
    <3> QED BY <3>2, <3>3, <3>4
  <2> QED BY <2>3, <2>4
<1>2. \E x \in S : \A y \in S : x >= y
  BY <1>1
<1> QED BY <1>2 DEF W!Max

(* A body writes no field twice. *)
Once(body) ==
    \A i, j \in DOMAIN body.members : body.members[i].field = body.members[j].field => i = j

(* The members of a body have numbers, and there are finitely many. *)
LEMMA Numbered ==
    ASSUME NEW body, body.members \in Seq(W!MemberTexts)
    PROVE  DOMAIN body.members \subseteq Int /\ IsFiniteSet(DOMAIN body.members)
<1>1. Len(body.members) \in Nat /\ DOMAIN body.members = 1..Len(body.members)
  OBVIOUS
<1> QED BY <1>1, FS_Interval

(* g is what the members of body whose numbers are in s decode into, for each
   subset s of the numbers: the recursion of the fold. *)
IsDecoding(g, body) ==
    g = [s \in SUBSET DOMAIN body.members |->
            IF s = {} THEN W!Zero
            ELSE W!Assign(g[s \ {W!Max(s)}], body.members[W!Max(s)])]

(* The members that leave something in a field. *)
Leave(body, s, f) ==
    {i \in s : body.members[i].field = f /\ (body.members[i].value = W!Null => f = "external_ref")}

(* What they leave, and the request as they make it. *)
Left(body, S, f) ==
    IF S = {} THEN W!Zero[f] ELSE body.members[CHOOSE i \in S : TRUE].value

Built(body, s) == [f \in DOMAIN W!Zero |-> Left(body, Leave(body, s, f), f)]

(* One member more. *)
LEMMA BuiltStep ==
    ASSUME NEW body, Once(body), NEW s \in SUBSET DOMAIN body.members, NEW x \in s
    PROVE  W!Assign(Built(body, s \ {x}), body.members[x]) = Built(body, s)
<1> DEFINE t == s \ {x}
           m == body.members[x]
<1>1. CASE m.value = W!Null /\ m.field # "external_ref"
  <2>1. ASSUME NEW f PROVE Leave(body, s, f) = Leave(body, t, f)
    BY <1>1 DEF Leave
  <2>2. Built(body, t) = Built(body, s)
    BY <2>1 DEF Built
  <2> QED BY <1>1, <2>2 DEF W!Assign
<1>2. CASE ~(m.value = W!Null /\ m.field # "external_ref")
  <2>1. Leave(body, s, m.field) = {x}
    BY <1>2 DEF Leave, Once
  <2>2. ASSUME NEW f, f # m.field PROVE Leave(body, s, f) = Leave(body, t, f)
    BY <2>2 DEF Leave
  <2>3. W!Assign(Built(body, t), m) = [Built(body, t) EXCEPT ![m.field] = m.value]
    BY <1>2 DEF W!Assign
  <2>4. ASSUME NEW f \in DOMAIN W!Zero
        PROVE  Built(body, s)[f] = IF f = m.field THEN m.value ELSE Built(body, t)[f]
    <3>1. CASE f = m.field
      BY <2>1, <3>1 DEF Built, Left
    <3>2. CASE f # m.field
      BY <2>2, <3>2 DEF Built
    <3> QED BY <3>1, <3>2
  <2>5. /\ Built(body, s) = [f \in DOMAIN W!Zero |-> Built(body, s)[f]]
        /\ DOMAIN Built(body, t) = DOMAIN W!Zero
    BY DEF Built
  <2>6. [Built(body, t) EXCEPT ![m.field] = m.value]
          = [f \in DOMAIN W!Zero |-> IF f = m.field THEN m.value ELSE Built(body, t)[f]]
    BY <2>5
  <2> QED BY <2>3, <2>4, <2>5, <2>6
<1> QED BY <1>1, <1>2

(* Nothing decodes into the zero request. *)
LEMMA BuiltEmpty == ASSUME NEW body PROVE Built(body, {}) = W!Zero
<1>1. ASSUME NEW f PROVE Leave(body, {}, f) = {}
  BY DEF Leave
<1>2. Built(body, {}) = [f \in DOMAIN W!Zero |-> W!Zero[f]]
  BY <1>1 DEF Built, Left
<1> QED BY <1>2 DEF W!Zero

(* So that is a solution of the recursion. *)
LEMMA BuiltDecodes ==
    ASSUME NEW body, Once(body), body.members \in Seq(W!MemberTexts)
    PROVE  IsDecoding([s \in SUBSET DOMAIN body.members |-> Built(body, s)], body)
<1> DEFINE g == [s \in SUBSET DOMAIN body.members |-> Built(body, s)]
<1>1. ASSUME NEW s \in SUBSET DOMAIN body.members, s # {}
      PROVE  g[s] = W!Assign(g[s \ {W!Max(s)}], body.members[W!Max(s)])
  <2>1. W!Max(s) \in s
    BY <1>1, Numbered, LargestMember, FS_Subset
  <2> QED BY <2>1, BuiltStep
<1>2. g[{}] = W!Zero
  BY BuiltEmpty
<1>3. g = [s \in SUBSET DOMAIN body.members |-> g[s]]
  OBVIOUS
<1> HIDE DEF g
<1>4. ASSUME NEW s \in SUBSET DOMAIN body.members
      PROVE  g[s] = IF s = {} THEN W!Zero ELSE W!Assign(g[s \ {W!Max(s)}], body.members[W!Max(s)])
  BY <1>1, <1>2
<1>5. IsDecoding(g, body)
  BY <1>3, <1>4 DEF IsDecoding
<1> QED BY <1>5 DEF g

(* There is no other. *)
LEMMA DecodingUnique ==
    ASSUME NEW body, body.members \in Seq(W!MemberTexts), NEW g, NEW h,
           IsDecoding(g, body), IsDecoding(h, body)
    PROVE  g[DOMAIN body.members] = h[DOMAIN body.members]
<1> DEFINE D == DOMAIN body.members
           B == {s \in SUBSET D : g[s] # h[s]}
<1> SUFFICES ASSUME B # {} PROVE FALSE
  OBVIOUS
<1>1. PICK m \in B : \A t \in SUBSET m : t # m => t \notin B
  <2>1. B \subseteq SUBSET D /\ B # {} /\ IsFiniteSet(D)
    BY Numbered
  <2> HIDE DEF B, D
  <2> QED BY <2>1, SmallestSubset
<1>2. g[{}] = W!Zero /\ h[{}] = W!Zero
  BY DEF IsDecoding
<1>3. m # {} /\ W!Max(m) \in m
  BY <1>1, <1>2, Numbered, LargestMember, FS_Subset
<1>4. g[m \ {W!Max(m)}] = h[m \ {W!Max(m)}]
  BY <1>1, <1>3
<1>5. /\ g[m] = W!Assign(g[m \ {W!Max(m)}], body.members[W!Max(m)])
      /\ h[m] = W!Assign(h[m \ {W!Max(m)}], body.members[W!Max(m)])
  BY <1>1, <1>3 DEF IsDecoding
<1> QED BY <1>1, <1>4, <1>5

(* What unmarshalJSON leaves in the struct, member by member in the order of
   the text, is what each of the members says. *)
LEMMA RequestIsBuilt ==
    ASSUME NEW body, Once(body), body.members \in Seq(W!MemberTexts)
    PROVE  W!Request(body) = Built(body, DOMAIN body.members)
<1> DEFINE g == CHOOSE g : IsDecoding(g, body)
           h == [s \in SUBSET DOMAIN body.members |-> Built(body, s)]
<1>1. IsDecoding(g, body) /\ IsDecoding(h, body)
  <2>1. IsDecoding(h, body)
    BY BuiltDecodes
  <2> HIDE DEF h, IsDecoding
  <2> QED BY <2>1
<1>2. W!Request(body) = g[DOMAIN body.members]
  BY Zenon DEF W!Request, W!FoldLeft, W!MapThenFoldSet, IsDecoding
<1>3. g[DOMAIN body.members] = h[DOMAIN body.members]
  <2> HIDE DEF g, h
  <2> QED BY <1>1, DecodingUnique
<1> QED BY <1>2, <1>3

-----------------------------------------------------------------------------
(* Fingerprints.                                                            *)

(* The name of a member, as a map has it. *)
NameOf(m) == [field |-> m.field, spelling |-> m.spelling]

(* The map has the value of a member, unless another one of its name differs. *)
LEMMA DecodedValue ==
    ASSUME NEW body, body.members \in Seq(W!MemberTexts), NEW i \in DOMAIN body.members,
           \A j \in DOMAIN body.members :
                NameOf(body.members[j]) = NameOf(body.members[i])
                    => body.members[j].value = body.members[i].value
    PROVE  /\ NameOf(body.members[i]) \in W!Names(body)
           /\ W!Decoded(body, NameOf(body.members[i])) = body.members[i].value
<1> DEFINE n == NameOf(body.members[i])
           at == {j \in DOMAIN body.members :
                    body.members[j].field = n.field /\ body.members[j].spelling = n.spelling}
<1>1. n \in W!Names(body)
  BY DEF W!Names, W!Range, NameOf
<1>2. i \in at /\ at \subseteq DOMAIN body.members
  BY DEF NameOf
<1>3. W!Max(at) \in at
  <2>1. IsFiniteSet(at) /\ at \subseteq Int /\ at # {}
    BY <1>2, Numbered, FS_Subset
  <2> HIDE DEF at
  <2> QED BY <2>1, LargestMember
<1>4. \A j \in at : body.members[j].value = body.members[i].value
  BY DEF NameOf
<1>5. W!Decoded(body, n) = body.members[W!Max(at)].value
  BY DEF W!Decoded
<1> QED BY <1>1, <1>3, <1>4, <1>5

(* A body that writes no field twice has all its values in the map. *)
LEMMA DecodedOnce ==
    ASSUME NEW body, body.members \in Seq(W!MemberTexts), Once(body), NEW i \in DOMAIN body.members
    PROVE  /\ NameOf(body.members[i]) \in W!Names(body)
           /\ W!Decoded(body, NameOf(body.members[i])) = body.members[i].value
<1>1. \A j \in DOMAIN body.members :
        NameOf(body.members[j]) = NameOf(body.members[i]) => body.members[j].value = body.members[i].value
  BY DEF Once, NameOf
<1> QED BY <1>1, DecodedValue

(* Every name is one of a member. *)
LEMMA NamesAreMembers ==
    ASSUME NEW body, NEW n \in W!Names(body)
    PROVE  \E i \in DOMAIN body.members : NameOf(body.members[i]) = n
  BY DEF W!Names, W!Range, NameOf

(* A body has a member with this field and value. *)
Says(body, field, value) ==
    \E j \in DOMAIN body.members : body.members[j].field = field /\ body.members[j].value = value

(* Bodies with one map say the same of each field. *)
LEMMA SameMapSameMembers ==
    ASSUME NEW b, NEW c, b.members \in Seq(W!MemberTexts), c.members \in Seq(W!MemberTexts),
           Once(b), Once(c), W!canonicalJSON(b) = W!canonicalJSON(c)
    PROVE  \A i \in DOMAIN b.members : Says(c, b.members[i].field, b.members[i].value)
<1> SUFFICES ASSUME NEW i \in DOMAIN b.members
             PROVE  Says(c, b.members[i].field, b.members[i].value)
  OBVIOUS
<1> DEFINE n == NameOf(b.members[i])
<1>1. n \in W!Names(b) /\ W!Decoded(b, n) = b.members[i].value
  BY DecodedOnce
<1>2. n \in W!Names(c) /\ W!Decoded(c, n) = W!Decoded(b, n)
  <2> HIDE DEF n
  <2> QED BY <1>1 DEF W!canonicalJSON
<1>3. PICK j \in DOMAIN c.members : NameOf(c.members[j]) = n
  <2> HIDE DEF n
  <2> QED BY <1>2, NamesAreMembers
<1>4. W!Decoded(c, n) = c.members[j].value
  BY <1>3, DecodedOnce
<1>5. c.members[j].field = b.members[i].field
  BY <1>3 DEF NameOf
<1> QED BY <1>1, <1>2, <1>4, <1>5 DEF Says

(* So they decode into the same request. *)
LEMMA SameMapSameRequest ==
    ASSUME NEW b, NEW c, b.members \in Seq(W!MemberTexts), c.members \in Seq(W!MemberTexts),
           Once(b), Once(c), W!canonicalJSON(b) = W!canonicalJSON(c)
    PROVE  W!Request(b) = W!Request(c)
<1> DEFINE Db == DOMAIN b.members
           Dc == DOMAIN c.members
<1>0. /\ \A i \in DOMAIN b.members : Says(c, b.members[i].field, b.members[i].value)
      /\ \A j \in DOMAIN c.members : Says(b, c.members[j].field, c.members[j].value)
  <2>1. \A i \in DOMAIN b.members : Says(c, b.members[i].field, b.members[i].value)
    BY SameMapSameMembers, Zenon
  <2>2. W!canonicalJSON(c) = W!canonicalJSON(b)
    OBVIOUS
  <2>3. \A j \in DOMAIN c.members : Says(b, c.members[j].field, c.members[j].value)
    BY <2>2, SameMapSameMembers, Zenon
  <2> QED BY <2>1, <2>3
<1>1. ASSUME NEW f PROVE Left(b, Leave(b, Db, f), f) = Left(c, Leave(c, Dc, f), f)
  <2>1. ASSUME NEW i \in Leave(b, Db, f)
        PROVE  \E j \in Leave(c, Dc, f) : c.members[j].value = b.members[i].value
    <3>1. i \in DOMAIN b.members
      BY DEF Leave
    <3>2. PICK j \in DOMAIN c.members : /\ c.members[j].field = b.members[i].field
                                       /\ c.members[j].value = b.members[i].value
      BY <1>0, <3>1 DEF Says
    <3> QED BY <3>2 DEF Leave
  <2>2. ASSUME NEW j \in Leave(c, Dc, f)
        PROVE  \E i \in Leave(b, Db, f) : b.members[i].value = c.members[j].value
    <3>1. j \in DOMAIN c.members
      BY DEF Leave
    <3>2. PICK i \in DOMAIN b.members : /\ b.members[i].field = c.members[j].field
                                       /\ b.members[i].value = c.members[j].value
      BY <1>0, <3>1 DEF Says
    <3> QED BY <3>2 DEF Leave
  <2>3. \A i, j \in Leave(c, Dc, f) : i = j
    BY DEF Leave, Once
  <2>4. CASE Leave(b, Db, f) = {}
    BY <2>2, <2>4 DEF Left
  <2>5. CASE Leave(b, Db, f) # {}
    <3> DEFINE i == CHOOSE i \in Leave(b, Db, f) : TRUE
    <3>1. i \in Leave(b, Db, f)
      BY <2>5
    <3>2. PICK j \in Leave(c, Dc, f) : c.members[j].value = b.members[i].value
      BY <2>1, <3>1
    <3>3. (CHOOSE k \in Leave(c, Dc, f) : TRUE) = j
      BY <2>3, <3>2
    <3> QED BY <2>5, <3>2, <3>3 DEF Left
  <2> QED BY <2>4, <2>5
<1>2. Built(b, Db) = Built(c, Dc)
  BY <1>1 DEF Built
<1> QED BY <1>2, RequestIsBuilt

(* The order of the members leaves no trace in the map. *)
LEMMA OrderLeavesNoTrace ==
    ASSUME NEW b \in Bodies, NEW c \in Bodies, Reordered(b, c)
    PROVE  W!FingerprintOf(Text[b]) = W!FingerprintOf(Text[c])
<1> DEFINE p == Text[b].members
           q == Text[c].members
<1>1. p \in Seq(W!MemberTexts) /\ q \in Seq(W!MemberTexts)
  BY WireAssumption
<1>2. /\ \A i, j \in DOMAIN p : p[i].field = p[j].field => i = j
      /\ \A i \in DOMAIN p : \E j \in DOMAIN q : q[j] = p[i]
      /\ \A j \in DOMAIN q : \E i \in DOMAIN p : p[i] = q[j]
  <2>1. Unrepeated(b) /\ Members(b) = Members(c)
    BY DEF Reordered
  <2>2. \A i, j \in DOMAIN p : p[i].field = p[j].field => i = j
    BY <2>1 DEF Unrepeated
  <2>3. /\ \A i \in DOMAIN p : p[i] \in Members(b)
        /\ \A j \in DOMAIN q : q[j] \in Members(c)
    BY DEF Members
  <2>4. /\ \A m \in Members(c) : \E j \in DOMAIN q : q[j] = m
        /\ \A m \in Members(b) : \E i \in DOMAIN p : p[i] = m
    BY DEF Members
  <2> HIDE DEF p, q
  <2> QED BY <2>1, <2>2, <2>3, <2>4
<1>3. ASSUME NEW i \in DOMAIN p
      PROVE  /\ NameOf(p[i]) \in W!Names(Text[b]) /\ W!Decoded(Text[b], NameOf(p[i])) = p[i].value
             /\ NameOf(p[i]) \in W!Names(Text[c]) /\ W!Decoded(Text[c], NameOf(p[i])) = p[i].value
  <2>1. NameOf(p[i]) \in W!Names(Text[b]) /\ W!Decoded(Text[b], NameOf(p[i])) = p[i].value
    BY <1>1, <1>2, DecodedOnce DEF Once
  <2>2. PICK j \in DOMAIN q : q[j] = p[i]
    BY <1>2
  <2>3. \A k \in DOMAIN q : NameOf(q[k]) = NameOf(q[j]) => q[k].value = q[j].value
    <3> HIDE DEF p, q
    <3> SUFFICES ASSUME NEW k \in DOMAIN q, NameOf(q[k]) = NameOf(q[j]) PROVE q[k].value = q[j].value
      OBVIOUS
    <3>1. PICK l \in DOMAIN p : p[l] = q[k]
      BY <1>2
    <3>2. p[l].field = p[i].field
      BY <2>2, <3>1 DEF NameOf
    <3> QED BY <1>2, <2>2, <3>1, <3>2
  <2>4. NameOf(q[j]) \in W!Names(Text[c]) /\ W!Decoded(Text[c], NameOf(q[j])) = q[j].value
    BY <1>1, <2>3, DecodedValue
  <2> QED BY <2>1, <2>2, <2>4
<1>4. W!Names(Text[b]) = W!Names(Text[c])
  <2>1. ASSUME NEW n \in W!Names(Text[b]) PROVE n \in W!Names(Text[c])
    BY <1>3, NamesAreMembers
  <2>2. ASSUME NEW n \in W!Names(Text[c]) PROVE n \in W!Names(Text[b])
    <3>1. PICK j \in DOMAIN q : NameOf(q[j]) = n
      BY NamesAreMembers
    <3>2. PICK i \in DOMAIN p : p[i] = q[j]
      BY <1>2
    <3> QED BY <1>3, <3>1, <3>2
  <2> QED BY <2>1, <2>2
<1>5. \A n \in W!Names(Text[b]) : W!Decoded(Text[b], n) = W!Decoded(Text[c], n)
  BY <1>3, NamesAreMembers
<1>6. W!canonicalJSON(Text[b]) = W!canonicalJSON(Text[c])
  BY <1>4, <1>5 DEF W!canonicalJSON
<1> QED BY <1>6 DEF W!FingerprintOf, Reordered

-----------------------------------------------------------------------------
(* Retries.                                                                 *)

(* A client whose request is answered with a stored response had asked for the
   same transfer, whatever was sent under the key: the fingerprint takes no
   other request for a retry (canonicalJSON, replayStoredResponse). *)
THEOREM ReplaysAgree == Spec => []ReplaysMeanTheSame
<1>1. LedgerInv => ReplaysMeanTheSame
  <2> SUFFICES ASSUME LedgerInv, NEW r \in Requests, reply[r].kind = "replayed",
                      Unrepeated(req[r].body), Unrepeated(req[reply[r].tx].body)
               PROVE  Means(r) = Means(reply[r].tx)
    BY DEF ReplaysMeanTheSame
  <2> DEFINE s == reply[r].tx
             b == Text[req[r].body]
             c == Text[req[s].body]
  <2>1. Wrote(s) /\ Hash(s) = Hash(r)
    BY DEF LedgerInv, HistoryInv, AnswerHonest, Status
  <2>2. s \in Requests
    BY <2>1 DEF Wrote, LedgerInv, IndInv, TypeOK, TransactionRows
  <2>3. req[r].body \in Bodies /\ req[s].body \in Bodies
    BY <2>2 DEF LedgerInv, IndInv, TypeOK
  <2>4. W!FingerprintOf(b) = W!FingerprintOf(c)
    BY <2>1, <2>3, WireAssumption DEF Hash
  <2>5. W!canonicalJSON(b) = W!canonicalJSON(c)
    BY <2>4 DEF W!FingerprintOf
  <2>6. b.members \in Seq(W!MemberTexts) /\ c.members \in Seq(W!MemberTexts) /\ Once(b) /\ Once(c)
    BY <2>3, WireAssumption DEF Once, Unrepeated
  <2>7. W!Request(b) = W!Request(c)
    <3> HIDE DEF b, c
    <3> QED BY <2>5, <2>6, SameMapSameRequest
  <2> QED BY <2>7 DEF Means, W!Meaning, W!CommandOf
<1> QED BY <1>1, LedgerInvariance, PTL

(* The row of a key stays as it is. *)
LEMMA RowStays ==
    ASSUME LedgerInv, [Next]_vars, NEW k \in Keys, keys[k] # NoRow
    PROVE  keys'[k] = keys[k]
<1>1. ASSUME NEW r \in Requests, Visible(r) PROVE keys'[k] = keys[k]
  BY <1>1, CommitOrNothing, CommittedTables DEF LedgerInv, tables
<1> QED BY <1>1, NextVisible DEF CreateAccount, vars, tables

(* Who is told that its key was used for something else was told so because the
   key's row has another hash, which it keeps. *)
ReuseIsReal ==
    \A r \in Requests : reply[r].kind = "key_reuse" =>
        /\ req[r].key \in Keys /\ keys[req[r].key] # NoRow
        /\ keys[req[r].key].hash # Hash(r)

(* It is, whatever happens next. *)
LEMMA ReuseStep ==
    ASSUME LedgerInv, ReuseIsReal, [Next]_vars
    PROVE  ReuseIsReal'
<1> SUFFICES ASSUME NEW r \in Requests, reply'[r].kind = "key_reuse"
             PROVE  /\ req'[r].key \in Keys /\ keys'[req'[r].key] # NoRow
                    /\ keys'[req'[r].key].hash # Hash(r)'
  BY DEF ReuseIsReal
<1>1. req' = req
  BY PostsOneOrNone
<1>2. Hash(r)' = Hash(r)
  BY <1>1 DEF Hash
<1>3. /\ req[r].key \in Keys /\ keys[req[r].key] # NoRow
      /\ keys[req[r].key].hash # Hash(r)
  <2>1. CASE reply'[r] = reply[r]
    BY <2>1 DEF ReuseIsReal
  <2>2. CASE reply'[r] # reply[r]
    <3>1. PICK s \in Requests : Visible(s)
      BY <2>2, NextVisible DEF CreateAccount, vars
    <3>2. reply \in [Requests -> Replies]
      BY DEF LedgerInv, IndInv, TypeOK
    <3>3. s = r
      BY <2>2, <3>1, <3>2 DEF Visible, Silent, Refused, Replayed, Posts, PostsLate, CutOff, Abandoned, Answer
    <3>4. PICK kind \in Kinds : Refused(r, kind) /\ reply'[r].kind = kind
      BY <2>2, <3>1, <3>2, <3>3
         DEF Visible, Silent, Refused, Replayed, Posts, PostsLate, CutOff, Abandoned, Answer
    <3> QED BY <3>4 DEF Refused, Warranted
  <2> QED BY <2>1, <2>2
<1>4. keys'[req[r].key] = keys[req[r].key]
  BY <1>3, RowStays
<1> QED BY <1>1, <1>2, <1>3, <1>4

(* A retry of a transfer that was made, sent to the same path with its members
   in another order, is never refused as a reuse of its key (canonicalJSON:
   "whitespace and field ordering do not change the fingerprint"). *)
THEOREM ReorderedAccepted == Spec => []ReorderedRetryAccepted
<1>1. Init => ReuseIsReal
  BY DEF Init, ReuseIsReal, NoReply
<1>2. LedgerInv /\ ReuseIsReal /\ [Next]_vars => ReuseIsReal'
  BY ReuseStep
<1>3. LedgerInv /\ ReuseIsReal => ReorderedRetryAccepted
  <2> SUFFICES ASSUME LedgerInv, ReuseIsReal, NEW r \in Requests, NEW s \in Requests,
                      RetryOf(r, s), Reordered(req[r].body, req[s].body), reply[r].kind = "key_reuse"
               PROVE  FALSE
    BY DEF ReorderedRetryAccepted
  <2>1. req[r].body \in Bodies /\ req[s].body \in Bodies
    BY DEF LedgerInv, IndInv, TypeOK
  <2>2. Hash(r) = Hash(s)
    BY <2>1, OrderLeavesNoTrace, WireAssumption DEF Hash
  <2>3. keys[req[s].key] = StoredResponse(s)
    BY DEF RetryOf, Wrote, LedgerInv, HistoryInv, AllOrNothing
  <2> QED BY <2>2, <2>3 DEF ReuseIsReal, RetryOf, StoredResponse
<1> QED BY <1>1, <1>2, <1>3, LedgerInvariance, PTL DEF Spec
=============================================================================
