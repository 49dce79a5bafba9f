----------------------------- MODULE WalletCrypto -----------------------------
(***************************************************************************)
(* How WalletService.createWallet turns a keypair and a password into the  *)
(* columns of a wallet, and what CryptoService can get back from them.     *)
(*                                                                         *)
(* The primitives are ideal: PBKDF2 and AES-GCM are free constructors, so  *)
(* a tag is right for one key, IV and ciphertext only, and random bytes    *)
(* are named by the call that drew them.  bcrypt tells passwords apart by  *)
(* their first 72 bytes; no password here has a NUL character.             *)
(***************************************************************************)
EXTENDS Naturals, FiniteSets

CONSTANTS
  Creates,     \* calls of createWallet
  Passwords,   \* what a body may have as password
  MaxAltered,  \* bound: of the four texts handed to decryptData, those not of the row
  Refused, Garbage, Zeroes, NoPassword, NoKeypair, NoCall

BcryptLimit == 72
MinPasswordLength == 8
MaxPasswordLengthLong == 80  \* faulty variant: more than bcrypt looks at
MaxPasswordLength == 64

(* A password by what is made of it: whether it is a string (a list of     *)
(* strings passes the validator too, which tests each), whether it has     *)
(* the characters the pattern allows, its characters, its bytes in UTF-8,  *)
(* and the first 72 of them.                                               *)
ASSUME PasswordAssumption ==
  /\ Passwords \subseteq [string : BOOLEAN, plain : BOOLEAN, chars : Nat,
                          bytes : Nat, start : STRING, rest : STRING]
  /\ \A p \in Passwords : /\ p.plain => p.bytes = p.chars
                          /\ p.bytes <= BcryptLimit => p.rest = ""
  /\ \A p, q \in Passwords :
       p.string /\ q.string /\ p.start = q.start /\ p.bytes < BcryptLimit => q = p
ASSUME NoValueAssumption == {Refused, Garbage, Zeroes} \cap Creates = {}

(* WalletValidator.createWallet                                            *)
Accepts(p) == p.plain /\ p.chars \in MinPasswordLength..MaxPasswordLength

-----------------------------------------------------------------------------
(* Bytes and their hexadecimal texts.                                      *)

Pieces == {"iv", "encrypted", "authTag", "salt"}

(* A text may be as it was written, have characters after it that are no   *)
(* byte, break off early, or name other bytes.                             *)
Forms == {"exact", "trailing", "cut", "changed"}

Whole(v) == [of |-> v, damage |-> "none"]

(* Buffer.from(text, 'hex') reads up to the first pair that is no byte.    *)
Decode(text) == IF text.form \in {"exact", "trailing"} THEN text.bytes
                ELSE [text.bytes EXCEPT !.damage = text.form]

DerivedKey(p, salt) == [password |-> p, salt |-> salt]

(* encryptData: the random bytes of call c, and the seed, are called c.    *)
Sealed(c, p) ==
  LET iv        == Whole(c)
      salt      == Whole(c)
      key       == DerivedKey(p, salt)
      encrypted == Whole([key |-> key, iv |-> iv, data |-> c])
  IN  [iv |-> iv, encrypted |-> encrypted, salt |-> salt,
       authTag |-> Whole([key |-> key, iv |-> iv, of |-> encrypted])]

Hash(p) == p.start

VerifyPassword(p, hash) == Hash(p) = hash

(* What decipher.update yields.                                            *)
Deciphered(bytes, key) ==
  LET e == bytes.encrypted IN
  IF e.damage = "none" /\ e.of.key = key /\ e.of.iv = bytes.iv
  THEN e.of.data ELSE Garbage

(* The possible ends of decryptData.  A tag that breaks off is compared    *)
(* over its own length, if that is one that setAuthTag allows.             *)
DecryptedUnchecked(handed, p) ==  \* faulty variant: decipher.final is not called
  LET bytes == [x \in Pieces |-> Decode(handed[x])]
  IN  {Deciphered(bytes, DerivedKey(p, bytes.salt))}

Decrypted(handed, p) ==
  LET bytes == [x \in Pieces |-> Decode(handed[x])]
      key   == DerivedKey(p, bytes.salt)
      right == [key |-> key, iv |-> bytes.iv, of |-> bytes.encrypted]
      plain == Deciphered(bytes, key)
  IN  IF bytes.authTag.of # right THEN {Refused}
      ELSE CASE bytes.authTag.damage = "none" -> {plain}
             [] bytes.authTag.damage = "cut" -> {plain, Refused}
             [] OTHER -> {Refused}

(* The buffers are zeroed on the way out; the data returned is a copy.     *)
ReturnedAlias(plain) == IF plain = Refused THEN Refused ELSE Zeroes  \* faulty variant
Returned(plain) == plain

Exact(sealed) == [x \in Pieces |-> [bytes |-> sealed[x], form |-> "exact"]]

-----------------------------------------------------------------------------

VARIABLES
  pc,
  password,   \* of each call
  keypair,
  sealed,     \* what encryptData returns, with passwordHash
  dirty,      \* the buffers of encryptData with a secret in them
  rows,       \* the wallet table
  opened      \* a call of decryptData: what it was given, and its end; its
              \* field "whole" is an observer

vars == <<pc, password, keypair, sealed, dirty, rows, opened>>

AddressOf(seed) == <<"5", seed>>

Init ==
  /\ pc = [c \in Creates |-> "idle"]
  /\ password = [c \in Creates |-> NoPassword]
  /\ keypair = [c \in Creates |-> NoKeypair]
  /\ sealed = [c \in Creates |-> NoCall]
  /\ dirty = [c \in Creates |-> {}]
  /\ rows = {}
  /\ opened = NoCall

GenerateKeypair(c) ==
  /\ pc[c] = "idle"
  /\ \E p \in Passwords : Accepts(p) /\ password' = [password EXCEPT ![c] = p]
  /\ keypair' = [keypair EXCEPT ![c] = [publicAddress |-> AddressOf(c), seed |-> c]]
  /\ pc' = [pc EXCEPT ![c] = "keyed"]
  /\ UNCHANGED <<sealed, dirty, rows, opened>>

(* encryptData up to the await of bcrypt.hash.                             *)
Encrypt(c) ==
  /\ pc[c] = "keyed"
  /\ sealed' = [sealed EXCEPT ![c] = Sealed(keypair[c].seed, password[c])]
  /\ dirty' = [dirty EXCEPT ![c] = {"passwordBuffer", "derivedKey", "dataBuffer"}]
  /\ pc' = [pc EXCEPT ![c] = "hashing"]
  /\ UNCHANGED <<password, keypair, rows, opened>>

HashThrows(c) ==
  /\ pc[c] = "hashing" /\ ~password[c].string
  /\ pc' = [pc EXCEPT ![c] = "failed"]
  /\ UNCHANGED <<password, keypair, sealed, dirty, rows, opened>>

HashReturnsAfterClearing(c) ==  \* faulty variant: only the password is cleared
  /\ pc[c] = "hashing" /\ password[c].string
  /\ dirty' = [dirty EXCEPT ![c] = @ \ {"passwordBuffer"}]
  /\ pc' = [pc EXCEPT ![c] = "hashed"]
  /\ UNCHANGED <<password, keypair, sealed, rows, opened>>

HashReturns(c) ==
  /\ pc[c] = "hashing" /\ password[c].string
  /\ dirty' = [dirty EXCEPT ![c] = @ \ {"passwordBuffer", "derivedKey", "dataBuffer"}]
  /\ pc' = [pc EXCEPT ![c] = "hashed"]
  /\ UNCHANGED <<password, keypair, sealed, rows, opened>>

(* WalletRepository.create, with the columns as createWallet passes them.  *)
Row(c, pair) ==
  [id |-> c, publicAddress |-> pair.publicAddress,
   sealed |-> sealed[c], passwordHash |-> Hash(password[c])]

InsertLatest(c) ==  \* faulty variant: the keypair is kept in the service
  /\ pc[c] = "hashed"
  /\ \E d \in Creates : keypair[d] # NoKeypair /\ rows' = rows \cup {Row(c, keypair[d])}
  /\ pc' = [pc EXCEPT ![c] = "stored"]
  /\ UNCHANGED <<password, keypair, sealed, dirty, opened>>

Insert(c) ==
  /\ pc[c] = "hashed"
  /\ rows' = rows \cup {Row(c, keypair[c])}
  /\ pc' = [pc EXCEPT ![c] = "stored"]
  /\ UNCHANGED <<password, keypair, sealed, dirty, opened>>

(* The texts of a row, of which some may be damaged or another row's.      *)
Handed(row) ==
  {h \in [Pieces -> [row : rows, form : Forms]] :
     Cardinality({x \in Pieces : h[x] # [row |-> row, form |-> "exact"]}) <= MaxAltered}

TextsOf(h) == [x \in Pieces |-> [bytes |-> h[x].row.sealed[x], form |-> h[x].form]]

(* The texts are those of one row, but for characters that are no byte.    *)
WholeRow(h) ==
  \E row \in rows : \A x \in Pieces : h[x].row = row /\ h[x].form \in {"exact", "trailing"}

(* decryptData keeps nothing between calls: one call is looked at.         *)
Decrypt ==
  /\ opened = NoCall
  /\ \E row \in rows, p \in Passwords :
       /\ p.string
       /\ \E h \in Handed(row) : \E plain \in Decrypted(TextsOf(h), p) :
            opened' = [encrypted |-> h["encrypted"].row.id, password |-> p,
                       whole |-> WholeRow(h), data |-> Returned(plain)]
  /\ UNCHANGED <<pc, password, keypair, sealed, dirty, rows>>

DecryptMalformed ==  \* not three parts
  /\ opened = NoCall
  /\ \E row \in rows, p \in Passwords :
       /\ p.string
       /\ opened' = [encrypted |-> row.id, password |-> p, whole |-> FALSE,
                     data |-> Refused]
  /\ UNCHANGED <<pc, password, keypair, sealed, dirty, rows>>

Idle == (\A c \in Creates : pc[c] \in {"stored", "failed"}) /\ UNCHANGED vars

Create(c) == \/ GenerateKeypair(c) \/ Encrypt(c) \/ HashThrows(c) \/ HashReturns(c)
             \/ Insert(c)

Next == \/ \E c \in Creates : Create(c)
        \/ Decrypt \/ DecryptMalformed
        \/ Idle

Spec == Init /\ [][Next]_vars

-----------------------------------------------------------------------------
(* Properties.                                                             *)

Keypairs == [publicAddress : {AddressOf(c) : c \in Creates}, seed : Creates]

(* Every variable has its type; decryptData returns a seed or refuses.     *)
TypeOK ==
  /\ pc \in [Creates -> {"idle", "keyed", "hashing", "hashed", "stored", "failed"}]
  /\ password \in [Creates -> Passwords \cup {NoPassword}]
  /\ keypair \in [Creates -> Keypairs \cup {NoKeypair}]
  /\ sealed \in [Creates -> {Sealed(c, p) : c \in Creates, p \in Passwords} \cup {NoCall}]
  /\ dirty \in [Creates -> SUBSET {"passwordBuffer", "derivedKey", "dataBuffer"}]
  /\ \A row \in rows : row.id \in Creates
  /\ opened # NoCall => /\ opened.password \in Passwords
                        /\ opened.data \in Creates \cup {Refused}

(* Whatever texts it is given, damaged or taken from several rows, what    *)
(* decryptData returns is the seed behind the ciphertext, and the password *)
(* was the one it was encrypted with.                                      *)
OnlyTheSeed ==
  opened # NoCall /\ opened.data # Refused =>
    /\ opened.data = keypair[opened.encrypted].seed
    /\ opened.password = password[opened.encrypted]

(* A stored wallet can be used: with its password, decryptData gives the   *)
(* seed of its own public address, however creations interleave.           *)
WalletHoldsItsKey ==
  \A row \in rows : \E seed \in Creates :
    /\ Decrypted(Exact(row.sealed), password[row.id]) = {seed}
    /\ AddressOf(seed) = row.publicAddress

(* verifyPassword and decryptData accept the same passwords, though one    *)
(* looks at 72 bytes and the other at all: the validator's limits see to   *)
(* it.                                                                     *)
ChecksAgree ==
  \A row \in rows, p \in Passwords :
    p.string => (VerifyPassword(p, row.passwordHash)
                   <=> Decrypted(Exact(row.sealed), p) # {Refused})

(* A secret of a creation is left in a buffer only while bcrypt hashes, or *)
(* when it threw, which takes a password that is no string.                *)
SecretsCleared ==
  \A c \in Creates : dirty[c] # {} =>
    pc[c] = "hashing" \/ (pc[c] = "failed" /\ ~password[c].string)

(* How the state reads as one of Keystore.                                 *)
Store == INSTANCE Keystore WITH
  Owners   <- Creates,
  Accepted <- {p \in Passwords : Accepts(p) /\ p.string},
  NoAnswer <- NoCall,
  safes    <- {[of |-> row.id, password |-> password[row.id]] : row \in rows},
  answer   <- opened

(* Creation locks each seed once, under the password of its own body, and  *)
(* decryptData opens what comes back with the same bytes, to its password  *)
(* and no other, however calls interleave and texts are damaged or mixed.  *)
ImplementsKeystore == Store!Spec

=============================================================================
