------------------------- MODULE WalletCrypto_proofs -------------------------
(***************************************************************************)
(* WalletCrypto for any creations, passwords and damage: what a stored     *)
(* wallet holds, what can be got back from it, and where secrets stay.     *)
(***************************************************************************)
EXTENDS WalletCrypto, TLAPS

Started(c) ==
  /\ password[c] \in Passwords /\ Accepts(password[c])
  /\ keypair[c] = [publicAddress |-> AddressOf(c), seed |-> c]

(* Each call has its own keypair, password and texts.                      *)
CallInv ==
  \A c \in Creates :
    /\ pc[c] = "idle" => keypair[c] = NoKeypair /\ password[c] = NoPassword
    /\ pc[c] # "idle" => Started(c)
    /\ pc[c] \in {"hashing", "hashed", "stored"} => sealed[c] = Sealed(c, password[c])
    /\ pc[c] \in {"hashed", "stored"} => password[c].string

RowInv ==
  \A row \in rows :
    /\ row.id \in Creates /\ pc[row.id] = "stored"
    /\ row.publicAddress = AddressOf(row.id)
    /\ row.sealed = Sealed(row.id, password[row.id])
    /\ row.passwordHash = Hash(password[row.id])

OpenedInv ==
  opened # NoCall =>
    /\ opened.password \in Passwords
    /\ opened.encrypted \in Creates /\ pc[opened.encrypted] = "stored"
    /\ \/ opened.data = Refused
       \/ opened.data = opened.encrypted /\ opened.password = password[opened.encrypted]

IInv == TypeOK /\ CallInv /\ RowInv /\ OpenedInv /\ SecretsCleared

-----------------------------------------------------------------------------
(* What decryptData can do with texts of wallets.                          *)

(* Damage does not change what a text was made from.                       *)
LEMMA DecodeKeeps ==
  ASSUME NEW v, NEW f \in Forms
  PROVE  /\ Decode([bytes |-> Whole(v), form |-> f]).of = v
         /\ f \in {"exact", "trailing"} =>
             Decode([bytes |-> Whole(v), form |-> f]) = Whole(v)
<1>1. CASE f \in {"exact", "trailing"}
  BY <1>1 DEF Decode, Whole
<1>2. CASE f \notin {"exact", "trailing"}
  BY <1>2 DEF Decode, Whole
<1>3. QED
  BY <1>1, <1>2

(* The pieces of a wallet of call c, sealed with password p.               *)
Inner(c, p) == [key |-> DerivedKey(p, Whole(c)), iv |-> Whole(c), data |-> c]

Tag(c, p) == [key |-> DerivedKey(p, Whole(c)), iv |-> Whole(c),
              of |-> Whole(Inner(c, p))]

LEMMA SealedPieces ==
  ASSUME NEW c, NEW p
  PROVE  Sealed(c, p) = [iv |-> Whole(c), encrypted |-> Whole(Inner(c, p)),
                         salt |-> Whole(c), authTag |-> Whole(Tag(c, p))]
BY DEF Sealed, Inner, Tag

(* Pieces of wallets, whole or not, give at most the seed of the           *)
(* ciphertext, and only with its password.                                 *)
LEMMA OnlyItsPassword ==
  ASSUME NEW pw, NEW id \in [Pieces -> Creates], NEW form \in [Pieces -> Forms],
         NEW p,
         NEW plain \in Decrypted([x \in Pieces |->
                         [bytes |-> Sealed(id[x], pw[id[x]])[x], form |-> form[x]]], p),
         plain # Refused
  PROVE  plain = id["encrypted"] /\ p = pw[id["encrypted"]]
<1> DEFINE t == [x \in Pieces |->
                  [bytes |-> Sealed(id[x], pw[id[x]])[x], form |-> form[x]]]
           b == [x \in Pieces |-> Decode(t[x])]
           key == DerivedKey(p, b.salt)
           a == id["authTag"]
           e == id["encrypted"]
<1>1. /\ t["authTag"] = [bytes |-> Whole(Tag(a, pw[a])), form |-> form["authTag"]]
      /\ t["encrypted"] = [bytes |-> Whole(Inner(e, pw[e])), form |-> form["encrypted"]]
  BY SealedPieces DEF Pieces
<1>2. b.authTag.of = Tag(a, pw[a])
  <2>1. form["authTag"] \in Forms /\ b.authTag = Decode(t["authTag"])
    BY DEF Pieces
  <2>2. QED
    BY <1>1, <2>1, DecodeKeeps
<1>3. b.encrypted.of = Inner(e, pw[e])
  <2>1. form["encrypted"] \in Forms /\ b.encrypted = Decode(t["encrypted"])
    BY DEF Pieces
  <2>2. QED
    BY <1>1, <2>1, DecodeKeeps
<1> HIDE DEF t, b, a, e
<1>4. /\ b.authTag.of = [key |-> key, iv |-> b.iv, of |-> b.encrypted]
      /\ plain = Deciphered(b, key)
  BY DEF Decrypted, b, t
<1>5. /\ key = DerivedKey(pw[a], Whole(a))
      /\ b.iv = Whole(a) /\ b.encrypted = Whole(Inner(a, pw[a]))
  BY <1>2, <1>4 DEF Tag
<1>6. p = pw[a]
  BY <1>5 DEF DerivedKey
<1>7. Inner(a, pw[a]) = Inner(e, pw[e])
  BY <1>3, <1>5 DEF Whole
<1>8. a = e
  BY <1>7 DEF Inner
<1>9. b.encrypted.damage = "none"
  BY <1>5 DEF Whole
<1>10. b.encrypted.of.key = key /\ b.encrypted.of.iv = b.iv /\ b.encrypted.of.data = a
  BY <1>5 DEF Whole, Inner
<1>11. plain = a
  BY <1>4, <1>9, <1>10 DEF Deciphered
<1>12. QED
  BY <1>6, <1>8, <1>11 DEF e

(* If its bytes come back whole, a wallet opens with its password and no   *)
(* other.                                                                  *)
LEMMA WholeOpensWithItsPassword ==
  ASSUME NEW c, NEW p, NEW q, NEW handed,
         \A x \in Pieces : /\ handed[x].bytes = Sealed(c, p)[x]
                           /\ handed[x].form \in {"exact", "trailing"}
  PROVE  Decrypted(handed, q) = IF q = p THEN {c} ELSE {Refused}
<1> DEFINE b == [x \in Pieces |-> Decode(handed[x])]
           key == DerivedKey(q, b.salt)
<1>1. /\ b.iv = Whole(c) /\ b.salt = Whole(c)
      /\ b.encrypted = Whole(Inner(c, p)) /\ b.authTag = Whole(Tag(c, p))
  <2>1. \A x \in Pieces : b[x] = Sealed(c, p)[x]
    BY DEF Decode
  <2>2. QED
    BY <2>1, SealedPieces DEF Pieces
<1>2. Decrypted(handed, q) =
        IF b.authTag.of # [key |-> key, iv |-> b.iv, of |-> b.encrypted] THEN {Refused}
        ELSE CASE b.authTag.damage = "none" -> {Deciphered(b, key)}
               [] b.authTag.damage = "cut" -> {Deciphered(b, key), Refused}
               [] OTHER -> {Refused}
  BY DEF Decrypted
<1> HIDE DEF b
<1>3. b.authTag.of = Tag(c, p) /\ b.authTag.damage = "none"
  BY <1>1 DEF Whole
<1>4. CASE q = p
  <2>1. key = DerivedKey(p, Whole(c))
    BY <1>1, <1>4
  <2>2. b.authTag.of = [key |-> key, iv |-> b.iv, of |-> b.encrypted]
    BY <1>1, <1>3, <2>1 DEF Tag
  <2>3. Deciphered(b, key) = c
    BY <1>1, <2>1 DEF Deciphered, Whole, Inner
  <2>4. QED
    BY <1>2, <1>3, <1>4, <2>2, <2>3
<1>5. CASE q # p
  <2>1. key # DerivedKey(p, Whole(c))
    BY <1>5 DEF DerivedKey
  <2>2. b.authTag.of # [key |-> key, iv |-> b.iv, of |-> b.encrypted]
    BY <1>3, <2>1 DEF Tag
  <2>3. QED
    BY <1>2, <1>5, <2>2
<1>6. QED
  BY <1>4, <1>5

LEMMA OpensWithItsPassword ==
  ASSUME NEW c, NEW p, NEW q
  PROVE  Decrypted(Exact(Sealed(c, p)), q) = IF q = p THEN {c} ELSE {Refused}
<1>1. \A x \in Pieces : /\ Exact(Sealed(c, p))[x].bytes = Sealed(c, p)[x]
                        /\ Exact(Sealed(c, p))[x].form \in {"exact", "trailing"}
  BY DEF Exact
<1>2. QED
  BY <1>1, WholeOpensWithItsPassword

-----------------------------------------------------------------------------

LEMMA InitInv == Init => IInv
BY DEF Init, IInv, TypeOK, CallInv, RowInv, OpenedInv, SecretsCleared

(* A call of createWallet.                                                 *)
LEMMA CreateStep ==
  ASSUME IInv, NEW c \in Creates, Create(c)
  PROVE  IInv'
<1> USE DEF TypeOK, CallInv, RowInv, OpenedInv, SecretsCleared
<1>0. TypeOK /\ CallInv /\ RowInv /\ OpenedInv /\ SecretsCleared
  BY DEF IInv
<1>1. CASE GenerateKeypair(c)
  <2>1. PICK p \in Passwords : Accepts(p) /\ password' = [password EXCEPT ![c] = p]
    BY <1>1 DEF GenerateKeypair
  <2>2. [publicAddress |-> AddressOf(c), seed |-> c] \in Keypairs
    BY DEF Keypairs
  <2>3. UNCHANGED <<sealed, dirty, rows, opened>> /\ pc[c] = "idle"
    BY <1>1 DEF GenerateKeypair
  <2>4. /\ pc' = [pc EXCEPT ![c] = "keyed"]
        /\ keypair' = [keypair EXCEPT ![c] = [publicAddress |-> AddressOf(c), seed |-> c]]
    BY <1>1 DEF GenerateKeypair
  <2>5. TypeOK' /\ SecretsCleared'
    BY <1>0, <2>1, <2>2, <2>3, <2>4
  <2>6. CallInv'
    BY <1>0, <2>1, <2>3, <2>4 DEF Started
  <2>7. RowInv'
    BY <1>0, <2>1, <2>3, <2>4
  <2>8. OpenedInv'
    BY <1>0, <2>1, <2>3, <2>4
  <2>9. QED
    BY <2>5, <2>6, <2>7, <2>8 DEF IInv
<1>2. CASE Encrypt(c)
  <2>1. keypair[c].seed = c /\ password[c] \in Passwords
    BY <1>0, <1>2 DEF Encrypt, Started
  <2>2. /\ pc[c] = "keyed" /\ pc' = [pc EXCEPT ![c] = "hashing"]
        /\ sealed' = [sealed EXCEPT ![c] = Sealed(c, password[c])]
        /\ dirty' = [dirty EXCEPT ![c] = {"passwordBuffer", "derivedKey", "dataBuffer"}]
        /\ UNCHANGED <<password, keypair, rows, opened>>
    BY <1>2, <2>1 DEF Encrypt
  <2>3. TypeOK' /\ SecretsCleared'
    BY <1>0, <2>1, <2>2
  <2>4. CallInv'
    BY <1>0, <2>2 DEF Started
  <2>5. RowInv' /\ OpenedInv'
    BY <1>0, <2>2
  <2>6. QED
    BY <2>3, <2>4, <2>5 DEF IInv
<1>3. CASE HashThrows(c)
  BY <1>0, <1>3 DEF HashThrows, Started, IInv
<1>4. CASE HashReturns(c)
  <2>1. dirty'[c] = {}
    BY <1>0, <1>4 DEF HashReturns
  <2>2. TypeOK' /\ SecretsCleared'
    BY <1>0, <1>4, <2>1 DEF HashReturns
  <2>3. CallInv' /\ RowInv' /\ OpenedInv'
    BY <1>0, <1>4 DEF HashReturns, Started
  <2>4. QED
    BY <2>2, <2>3 DEF IInv
<1>5. CASE Insert(c)
  <2>1. Started(c) /\ sealed[c] = Sealed(c, password[c])
    BY <1>0, <1>5 DEF Insert
  <2>2. Row(c, keypair[c]) =
          [id |-> c, publicAddress |-> AddressOf(c),
           sealed |-> Sealed(c, password[c]), passwordHash |-> Hash(password[c])]
    BY <2>1 DEF Row, Started
  <2>3. /\ pc[c] = "hashed" /\ pc' = [pc EXCEPT ![c] = "stored"]
        /\ rows' = rows \cup {Row(c, keypair[c])}
        /\ UNCHANGED <<password, keypair, sealed, dirty, opened>>
    BY <1>5 DEF Insert
  <2>4. TypeOK' /\ SecretsCleared'
    BY <1>0, <2>2, <2>3
  <2>5. CallInv' /\ OpenedInv'
    BY <1>0, <2>3 DEF Started
  <2>6. RowInv'
    BY <1>0, <2>2, <2>3
  <2>7. QED
    BY <2>4, <2>5, <2>6 DEF IInv
<1>6. QED
  BY <1>1, <1>2, <1>3, <1>4, <1>5 DEF Create

(* A call of decryptData with texts of the stored wallets ends as Keystore *)
(* allows.                                                                 *)
Safe(row) == [of |-> row.id, password |-> password[row.id]]

LEMMA DecryptOutcome ==
  ASSUME IInv, Decrypt
  PROVE  \E row \in rows, p \in Passwords, whole \in BOOLEAN :
           \E data \in Store!Gives(Safe(row), p, whole) :
             opened' = [encrypted |-> row.id, password |-> p, whole |-> whole,
                        data |-> data]
<1>0. RowInv
  BY DEF IInv
<1>a. PICK row \in rows, p \in Passwords :
        \E h \in Handed(row) : \E plain \in Decrypted(TextsOf(h), p) :
          opened' = [encrypted |-> h["encrypted"].row.id, password |-> p,
                     whole |-> WholeRow(h), data |-> Returned(plain)]
  BY DEF Decrypt
<1>1. PICK h \in Handed(row) : \E plain \in Decrypted(TextsOf(h), p) :
        opened' = [encrypted |-> h["encrypted"].row.id, password |-> p,
                   whole |-> WholeRow(h), data |-> Returned(plain)]
  BY <1>a
<1>2. PICK plain \in Decrypted(TextsOf(h), p) :
        opened' = [encrypted |-> h["encrypted"].row.id, password |-> p,
                   whole |-> WholeRow(h), data |-> Returned(plain)]
  BY <1>1
<1>3. h \in [Pieces -> [row : rows, form : Forms]]
  BY DEF Handed
<1>4. PICK id : id = [x \in Pieces |-> h[x].row.id]
  OBVIOUS
<1>5. PICK form : form = [x \in Pieces |-> h[x].form]
  OBVIOUS
<1>6. PICK pw : pw = password
  OBVIOUS
<1>7. \A x \in Pieces : /\ h[x].row \in rows /\ h[x].form \in Forms
                         /\ id[x] = h[x].row.id /\ form[x] = h[x].form
                         /\ h[x].row.sealed = Sealed(id[x], pw[id[x]])
  BY <1>0, <1>3, <1>4, <1>5, <1>6 DEF RowInv
<1>8. id \in [Pieces -> Creates] /\ form \in [Pieces -> Forms]
  BY <1>0, <1>4, <1>5, <1>7 DEF RowInv
<1>9. TextsOf(h) = [x \in Pieces |->
        [bytes |-> Sealed(id[x], pw[id[x]])[x], form |-> form[x]]]
  BY <1>5, <1>7 DEF TextsOf
<1>10. plain # Refused => plain = id["encrypted"] /\ p = pw[id["encrypted"]]
  BY <1>2, <1>8, <1>9, OnlyItsPassword
<1>11. "encrypted" \in Pieces
  BY DEF Pieces
<1>12. ASSUME WholeRow(h), p = pw[id["encrypted"]]
       PROVE  plain = id["encrypted"]
  <2>1. PICK own \in rows : \A x \in Pieces : h[x].row = own /\ h[x].form \in {"exact", "trailing"}
    BY <1>12 DEF WholeRow
  <2>2. PICK c, q : c = own.id /\ q = pw[c]
    OBVIOUS
  <2>3. \A x \in Pieces : /\ id[x] = c
                          /\ TextsOf(h)[x].bytes = Sealed(c, q)[x]
                          /\ TextsOf(h)[x].form \in {"exact", "trailing"}
    BY <1>7, <2>1, <2>2 DEF TextsOf
  <2>4. Decrypted(TextsOf(h), p) = IF p = q THEN {c} ELSE {Refused}
    BY <2>3, WholeOpensWithItsPassword
  <2>5. Decrypted(TextsOf(h), p) = {c}
    BY <1>11, <1>12, <2>2, <2>3, <2>4
  <2>6. QED
    BY <1>2, <1>11, <2>3, <2>5
<1>13. PICK own \in rows : own = h["encrypted"].row /\ own.id = id["encrypted"]
  BY <1>7, <1>11
<1>14. PICK whole \in BOOLEAN : whole = WholeRow(h)
  BY DEF WholeRow
<1>15. plain \in Store!Gives(Safe(own), p, whole)
  BY <1>6, <1>10, <1>12, <1>13, <1>14 DEF Store!Gives, Safe
<1>16. opened' = [encrypted |-> own.id, password |-> p, whole |-> whole, data |-> plain]
  BY <1>2, <1>13, <1>14 DEF Returned
<1>17. QED
  BY <1>13, <1>14, <1>15, <1>16

LEMMA DecryptStep ==
  ASSUME IInv, Decrypt
  PROVE  IInv'
<1>0. TypeOK /\ CallInv /\ RowInv /\ SecretsCleared
  BY DEF IInv
<1>1. PICK row \in rows, p \in Passwords, whole \in BOOLEAN :
        \E data \in Store!Gives(Safe(row), p, whole) :
          opened' = [encrypted |-> row.id, password |-> p, whole |-> whole, data |-> data]
  BY DecryptOutcome
<1>2. PICK data \in Store!Gives(Safe(row), p, whole) :
        opened' = [encrypted |-> row.id, password |-> p, whole |-> whole, data |-> data]
  BY <1>1
<1>3. data = Refused \/ (data = row.id /\ p = password[row.id])
  BY <1>2 DEF Store!Gives, Safe
<1>4. row.id \in Creates /\ pc[row.id] = "stored"
  BY <1>0 DEF RowInv
<1>5. UNCHANGED <<pc, password, keypair, sealed, dirty, rows>>
  BY DEF Decrypt
<1>6. OpenedInv'
  BY <1>2, <1>3, <1>4, <1>5 DEF OpenedInv
<1>7. TypeOK'
  BY <1>0, <1>2, <1>3, <1>4, <1>5 DEF TypeOK
<1>8. CallInv' /\ RowInv' /\ SecretsCleared'
  BY <1>0, <1>5 DEF CallInv, RowInv, SecretsCleared, Started
<1>9. QED
  BY <1>6, <1>7, <1>8 DEF IInv

LEMMA Step == IInv /\ [Next]_vars => IInv'
<1> SUFFICES ASSUME IInv, [Next]_vars PROVE IInv'
  OBVIOUS
<1>1. CASE \E c \in Creates : Create(c)
  BY <1>1, CreateStep
<1>2. CASE Decrypt
  BY <1>2, DecryptStep
<1>3. CASE DecryptMalformed
  BY <1>3 DEF DecryptMalformed, IInv, TypeOK, CallInv, RowInv, OpenedInv,
              SecretsCleared, Started
<1>4. CASE UNCHANGED vars
  BY <1>4 DEF vars, IInv, TypeOK, CallInv, RowInv, OpenedInv, SecretsCleared, Started
<1>5. QED
  BY <1>1, <1>2, <1>3, <1>4 DEF Next, Idle

-----------------------------------------------------------------------------

THEOREM Invariance == Spec => []IInv
BY InitInv, Step, PTL DEF Spec

(* The variables keep their types; decryptData gives a seed or refuses.    *)
THEOREM TypeCorrect == Spec => []TypeOK
<1>1. IInv => TypeOK
  BY DEF IInv
<1>2. QED
  BY <1>1, Invariance, PTL

(* A secret stays in a buffer of a creation only when bcrypt threw.        *)
THEOREM Clearing == Spec => []SecretsCleared
<1>1. IInv => SecretsCleared
  BY DEF IInv
<1>2. QED
  BY <1>1, Invariance, PTL

(* Damaged and mixed texts give at most the seed of the ciphertext, and    *)
(* only with the password it was encrypted with.                           *)
THEOREM Confidential == Spec => []OnlyTheSeed
<1>1. IInv => OnlyTheSeed
  <2> SUFFICES ASSUME IInv, opened # NoCall, opened.data # Refused
               PROVE  /\ opened.data = keypair[opened.encrypted].seed
                      /\ opened.password = password[opened.encrypted]
    BY DEF OnlyTheSeed
  <2>1. /\ opened.encrypted \in Creates /\ pc[opened.encrypted] = "stored"
        /\ opened.data = opened.encrypted
        /\ opened.password = password[opened.encrypted]
    BY DEF IInv, OpenedInv
  <2>2. Started(opened.encrypted)
    BY <2>1 DEF IInv, CallInv
  <2>3. QED
    BY <2>1, <2>2 DEF Started
<1>2. QED
  BY <1>1, Invariance, PTL

(* A stored wallet opens, to the seed of its address.                      *)
THEOREM Usable == Spec => []WalletHoldsItsKey
<1>1. IInv => WalletHoldsItsKey
  BY OpensWithItsPassword DEF IInv, RowInv, WalletHoldsItsKey
<1>2. QED
  BY <1>1, Invariance, PTL

(* The two checks of a password agree on every stored wallet.              *)
THEOREM Agreement == Spec => []ChecksAgree
<1>1. IInv => ChecksAgree
  <2> SUFFICES ASSUME IInv, NEW row \in rows, NEW p \in Passwords, p.string
               PROVE  VerifyPassword(p, row.passwordHash)
                        <=> Decrypted(Exact(row.sealed), p) # {Refused}
    BY DEF ChecksAgree
  <2>1. PICK c \in Creates, q \in Passwords :
          /\ c = row.id /\ q = password[c] /\ q.string /\ Accepts(q)
          /\ row.sealed = Sealed(c, q) /\ row.passwordHash = Hash(q)
    BY DEF IInv, RowInv, CallInv, Started
  <2>2. Decrypted(Exact(row.sealed), p) = IF p = q THEN {c} ELSE {Refused}
    BY <2>1, OpensWithItsPassword
  <2>3. c # Refused
    BY NoValueAssumption
  <2>4. q.bytes < BcryptLimit
    <3>1. q.chars \in Nat /\ q.bytes = q.chars
      BY <2>1, PasswordAssumption DEF Accepts
    <3>2. q.chars <= 64
      BY <2>1, <3>1 DEF Accepts, MinPasswordLength, MaxPasswordLength
    <3>3. QED
      BY <3>1, <3>2 DEF BcryptLimit
  <2>5. q.start = p.start => p = q
    BY <2>1, <2>4, PasswordAssumption
  <2>6. QED
    BY <2>1, <2>2, <2>3, <2>5 DEF VerifyPassword, Hash
<1>2. QED
  BY <1>1, Invariance, PTL

-----------------------------------------------------------------------------
(* The refinement.                                                         *)

LEMMA LocksOnInsert ==
  ASSUME IInv, NEW c \in Creates, Insert(c)
  PROVE  \E p \in {q \in Passwords : Accepts(q) /\ q.string} : Store!Lock(c, p)
<1>1. /\ pc[c] = "hashed" /\ rows' = rows \cup {Row(c, keypair[c])}
      /\ UNCHANGED <<password, opened>>
  BY DEF Insert
<1>2. Started(c) /\ password[c].string
  BY <1>1 DEF IInv, CallInv
<1>3. \A row \in rows : row.id # c
  BY <1>1 DEF IInv, RowInv
<1>4. Row(c, keypair[c]).id = c
  BY DEF Row
<1>5. {[of |-> row.id, password |-> password'[row.id]] : row \in rows'}
        = {[of |-> row.id, password |-> password[row.id]] : row \in rows}
            \cup {[of |-> c, password |-> password[c]]}
  BY <1>1, <1>4
<1>6. PICK p : p = password[c]
  OBVIOUS
<1>7. Store!Lock(c, p)
  BY <1>1, <1>3, <1>5, <1>6 DEF Store!Lock
<1>8. QED
  BY <1>2, <1>6, <1>7 DEF Started

(* The rows a creation does not touch keep their passwords: only a call    *)
(* that has not stored its wallet yet chooses one.                         *)
LEMMA SafesStay ==
  ASSUME IInv, UNCHANGED rows,
         \A row \in rows : password'[row.id] = password[row.id]
  PROVE  {[of |-> row.id, password |-> password[row.id]] : row \in rows}'
           = {[of |-> row.id, password |-> password[row.id]] : row \in rows}
OBVIOUS

(* WalletCrypto implements Keystore, for any creations, passwords and      *)
(* damage: an insertion locks a safe, a decryption opens one, and nothing  *)
(* else is seen of either.                                                 *)
THEOREM Implementation == Spec => ImplementsKeystore
<1>1. Init => Store!Init
  BY DEF Init, Store!Init
<1>2. ASSUME IInv, [Next]_vars
      PROVE  [Store!Next]_<<{[of |-> row.id, password |-> password[row.id]] : row \in rows},
                           opened>>
  <2>1. ASSUME NEW c \in Creates, Insert(c) PROVE Store!Next
    BY <1>2, <2>1, LocksOnInsert DEF Store!Next
  <2>2. ASSUME NEW c \in Creates,
               \/ GenerateKeypair(c) \/ Encrypt(c) \/ HashThrows(c) \/ HashReturns(c)
        PROVE  /\ UNCHANGED <<rows, opened>>
               /\ \A row \in rows : password'[row.id] = password[row.id]
    <3>1. CASE GenerateKeypair(c)
      BY <1>2, <3>1 DEF GenerateKeypair, IInv, TypeOK, RowInv
    <3>2. CASE Encrypt(c) \/ HashThrows(c) \/ HashReturns(c)
      BY <3>2 DEF Encrypt, HashThrows, HashReturns
    <3>3. QED
      BY <2>2, <3>1, <3>2
  <2>3. CASE Decrypt
    <3>1. PICK row \in rows, p \in Passwords, whole \in BOOLEAN :
            \E data \in Store!Gives(Safe(row), p, whole) :
              opened' = [encrypted |-> row.id, password |-> p, whole |-> whole,
                         data |-> data]
      BY <1>2, <2>3, DecryptOutcome
    <3>2. Safe(row).of = row.id /\ opened = NoCall /\ UNCHANGED <<rows, password>>
      BY <2>3 DEF Decrypt, Safe
    <3>3. Store!Open(Safe(row), p)
      BY <3>1, <3>2 DEF Store!Open
    <3>4. Safe(row) \in {[of |-> w.id, password |-> password[w.id]] : w \in rows}
      BY DEF Safe
    <3>5. QED
      BY <3>3, <3>4 DEF Store!Next
  <2>4. CASE DecryptMalformed
    <3>1. PICK row \in rows, p \in Passwords :
            opened' = [encrypted |-> row.id, password |-> p, whole |-> FALSE,
                       data |-> Refused]
      BY <2>4 DEF DecryptMalformed
    <3>2. /\ Safe(row).of = row.id /\ opened = NoCall /\ UNCHANGED <<rows, password>>
          /\ Refused \in Store!Gives(Safe(row), p, FALSE)
      BY <2>4 DEF DecryptMalformed, Safe, Store!Gives
    <3>3. Store!Open(Safe(row), p)
      BY <3>1, <3>2 DEF Store!Open
    <3>4. Safe(row) \in {[of |-> w.id, password |-> password[w.id]] : w \in rows}
      BY DEF Safe
    <3>5. QED
      BY <3>3, <3>4 DEF Store!Next
  <2>5. CASE UNCHANGED vars
    BY <2>5 DEF vars
  <2>6. QED
    BY <1>2, <2>1, <2>2, <2>3, <2>4, <2>5, SafesStay DEF Next, Create, Idle
<1>3. QED
  BY <1>1, <1>2, Invariance, PTL DEF Spec, ImplementsKeystore, Store!Spec

=============================================================================
