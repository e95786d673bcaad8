------------------------------ MODULE Sealing ------------------------------
(* Content at rest (bridge/seal.py): a piece is sealed with a key of its    *)
(* own, the key is wrapped to every reader; adding a reader wraps it again, *)
(* removing one makes a new piece and leaves the old.                       *)
(*                                                                          *)
(* Ciphers are as strong as their keys: a key opens what it sealed and      *)
(* nothing else.                                                            *)
EXTENDS Naturals, Sequences, SequencesExt, FiniteSets

CONSTANTS Accounts, Contents,
          MaxPieces,    \* bound: pieces made
          None

VARIABLES pieces,       \* the pieces, none of which is ever taken away
          knows,        \* the piece keys each account has unwrapped or made
          made          \* history: <<account, piece>>, who sealed it

vars == <<pieces, knows, made>>

Init ==
  /\ pieces = << >> /\ knows = [a \in Accounts |-> {}] /\ made = {}

(* A fresh piece key is drawn for each piece and named after it.            *)
NewKey == Len(pieces) + 1
Piece(content, readers, key) ==
  [sealed |-> <<content, key>>, wrap |-> readers, key |-> key, inner |-> content,
   outer |-> <<content, key>>]

OuterVerifies(piece) == piece.outer = piece.sealed

IsReader(piece, account) == account \in piece.wrap

(* Open asks for the holder's own secret, a wrap, the key in it and the     *)
(* fingerprint of what comes out.                                           *)
Opens(piece, account, holder) ==
  /\ account = holder
  /\ IsReader(piece, account)
  /\ piece.sealed = <<piece.inner, piece.key>>

Seal ==
  /\ Len(pieces) < MaxPieces
  /\ \E a \in Accounts, c \in Contents : \E readers \in SUBSET Accounts :
       /\ pieces' = Append(pieces, Piece(c, readers, NewKey))
       /\ knows' = [knows EXCEPT ![a] = @ \cup {NewKey}]
       /\ made' = made \cup {<<a, NewKey>>}

(* Any account may ask, with the secret of any.                             *)
Open ==
  /\ \E n \in 1..Len(pieces), a \in Accounts, holder \in Accounts :
       /\ Opens(pieces[n], a, holder)
       /\ knows' = [knows EXCEPT ![holder] = @ \cup {pieces[n].key}]
  /\ UNCHANGED <<pieces, made>>

(* By whoever has the piece's key: the content is not sealed again.         *)
AddReader ==
  /\ \E n \in 1..Len(pieces), a \in Accounts, r \in Accounts :
       /\ pieces[n].key \in knows[a]
       /\ pieces' = [pieces EXCEPT ![n].wrap = @ \cup {r}]
  /\ UNCHANGED <<knows, made>>

(* By a reader who opened the old piece, with a fresh key.                  *)
RemoveReader ==
  /\ Len(pieces) < MaxPieces
  /\ \E n \in 1..Len(pieces), a \in Accounts, out \in Accounts :
       /\ pieces[n].key \in knows[a] /\ IsReader(pieces[n], out)
       /\ pieces' = Append(pieces, Piece(pieces[n].inner, pieces[n].wrap \ {out}, NewKey))
       /\ made' = made \cup {<<a, NewKey>>}
       /\ knows' = [knows EXCEPT ![a] = @ \cup {NewKey}]

(* Bytes at rest are altered: the outer fingerprint tells, and so does the  *)
(* opening.                                                                 *)
Alter ==
  /\ \E n \in 1..Len(pieces) :
       OuterVerifies(pieces[n]) /\ pieces' = [pieces EXCEPT ![n].sealed = <<None, None>>]
  /\ UNCHANGED <<knows, made>>

Next == Seal \/ Open \/ AddReader \/ RemoveReader \/ Alter

Spec == Init /\ [][Next]_vars

----------------------------------------------------------------------------
(* A reader removed cannot read what came after: whoever knows the key of a *)
(* piece made it or was, then or later, wrapped into it.                    *)
RemovedReadersStayOut ==
  \A n \in 1..Len(pieces), a \in Accounts :
    pieces[n].key \in knows[a] => \/ <<a, n>> \in made
                                  \/ a \in pieces[n].wrap

=============================================================================
