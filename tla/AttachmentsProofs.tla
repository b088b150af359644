--------------------------- MODULE AttachmentsProofs ---------------------------
(***************************************************************************)
(* What Attachments guarantees for every number of tasks, attachments,     *)
(* requests and failures.                                                  *)
(***************************************************************************)
EXTENDS Attachments, TLAPS

-----------------------------------------------------------------------------
(* What a handler knows of the attachment it works on.                     *)

\* Each statement belongs to the handlers that run it.
Purposes ==
    \A r \in Request :
        /\ pc[r] = "write" => op[r].do = "uploadFile"
        /\ pc[r] = "insert" => op[r].do \in {"uploadFile", "addLink"}
        /\ pc[r] \in {"find", "delete", "unlink", "removed"} => op[r].do = "remove"
        /\ op[r] # NULL /\ op[r].do = "uploadFile" => op[r].type = "FILE"
        /\ op[r] # NULL /\ op[r].do = "addLink" => op[r].type = "LINK"
        /\ pc[r] \in {"find", "delete", "unlink", "removed", "added"} =>
              op[r].attachment \in Attachment
        /\ pc[r] = "insert" /\ op[r].do = "uploadFile" => op[r].attachment \in Attachment
        /\ pc[r] = "access" /\ op[r].do = "remove" => op[r].attachment \in Attachment
        /\ pc[r] \in {"access", "insert"} /\ op[r].do = "addLink" => op[r].attachment = NULL

\* An upload whose file waits for its row.
Waiting(r, a) == pc[r] = "insert" /\ op[r].do = "uploadFile" /\ op[r].attachment = a

\* What is stored has an id that was handed out; the file of a waiting upload is
\* whole and nobody else's.
IdsFresh ==
    /\ \A a \in Attachment : row[a] # NULL \/ file[a] # NULL => a \in minted
    /\ \A r \in Request : \A a \in Attachment : Waiting(r, a) =>
          /\ a \in minted /\ row[a] = NULL
          /\ file[a] = [task |-> op[r].task, whole |-> TRUE]
          /\ \A q \in Request : pc[q] = "insert" /\ op[q].attachment = a => q = r

\* A row that a removal has read is never written again.
RemovalsKnow ==
    \A r \in Request : \A a \in Attachment :
        pc[r] \in {"delete", "unlink", "removed"} /\ op[r].attachment = a =>
            /\ a \in minted /\ \A q \in Request : ~Waiting(q, a)
            /\ pc[r] # "delete" => row[a] = NULL
            /\ row[a] # NULL => row[a].type = op[r].type
            /\ pc[r] \in {"delete", "unlink"} /\ op[r].type = "LINK" => file[a] = NULL

LinksHaveNone ==
    \A a \in Attachment : row[a] # NULL /\ row[a].type = "LINK" => file[a] = NULL

Inv == TypeOK /\ Purposes /\ IdsFresh /\ RemovalsKnow /\ LinksHaveNone /\ RowsHaveFiles

LEMMA InitInv == Init => Inv
<1> SUFFICES ASSUME Init PROVE Inv
  OBVIOUS
<1>1. TypeOK
  BY DEF Init, TypeOK, Pc
<1>2. Purposes /\ IdsFresh /\ RemovalsKnow /\ LinksHaveNone /\ RowsHaveFiles
  BY DEF Init, Purposes, IdsFresh, RemovalsKnow, LinksHaveNone, RowsHaveFiles, Waiting
<1> QED
  BY <1>1, <1>2 DEF Inv

\* A request that ends leaves the others what they know.
LEMMA Leaving ==
    ASSUME Inv, NEW r \in Request, UNCHANGED <<row, file>>,
           task' \subseteq task, minted \subseteq minted', minted' \subseteq Attachment,
           said' \in [Attachment -> {"added", "removed", NULL}],
           pc' = [pc EXCEPT ![r] = "idle"], op' = [op EXCEPT ![r] = NULL],
           requests' \in Nat, failures' \in Nat, calm' = calm
    PROVE  Inv'
<1> USE DEF Inv
<1>1. TypeOK'
  <2>1. \A q \in Request : op'[q] = NULL <=> pc'[q] = "idle"
    BY DEF TypeOK
  <2> QED
    BY <2>1 DEF TypeOK, Pc
<1>2. Purposes'
  BY DEF TypeOK, Purposes
<1>3. \A q \in Request : \A a \in Attachment : Waiting(q, a)' => Waiting(q, a) /\ q # r
  BY DEF TypeOK, Waiting
<1>4. \A q \in Request : q # r => pc'[q] = pc[q] /\ op'[q] = op[q]
  BY DEF TypeOK
<1>5. pc'[r] = "idle"
  BY DEF TypeOK
<1>6. IdsFresh'
  BY <1>3, <1>4, <1>5 DEF IdsFresh
<1>7. RemovalsKnow'
  BY <1>3, <1>4, <1>5 DEF RemovalsKnow
<1>8. LinksHaveNone' /\ RowsHaveFiles'
  BY DEF LinksHaveNone, RowsHaveFiles
<1> QED
  BY <1>1, <1>2, <1>6, <1>7, <1>8

\* So does one that goes on, when it stays clear of `insert`, `delete`, ..
LEMMA Going ==
    ASSUME Inv, NEW r \in Request, UNCHANGED <<row, file, minted>>,
           task' \subseteq task, said' \in [Attachment -> {"added", "removed", NULL}],
           NEW label \in Pc \ {"idle", "delete", "unlink", "removed"},
           NEW o \in Op, pc' = [pc EXCEPT ![r] = label], op' = [op EXCEPT ![r] = o],
           label = "insert" => o.do = "addLink" /\ o.attachment = NULL,
           label = "write" => o.do = "uploadFile",
           label = "find" => o.do = "remove", 
           label \in {"find", "added"} => o.attachment \in Attachment,
           label = "access" /\ o.do = "remove" => o.attachment \in Attachment,
           label = "access" /\ o.do = "addLink" => o.attachment = NULL,
           o.do = "uploadFile" => o.type = "FILE",
           o.do = "addLink" => o.type = "LINK",
           requests' \in Nat, failures' \in Nat, calm' = calm
    PROVE  Inv'
<1> USE DEF Inv
<1>1. TypeOK'
  <2>1. \A q \in Request : op'[q] = NULL <=> pc'[q] = "idle"
    BY NullAssumption DEF TypeOK
  <2> QED
    BY <2>1 DEF TypeOK, Pc
<1>2. pc'[r] = label /\ op'[r] = o /\ \A q \in Request : q # r => pc'[q] = pc[q] /\ op'[q] = op[q]
  BY DEF TypeOK
<1>3. Purposes'
  BY <1>2 DEF Purposes
<1>4. \A q \in Request : \A a \in Attachment : Waiting(q, a)' => Waiting(q, a) /\ q # r
  BY <1>2 DEF Waiting
<1>6. IdsFresh'
  <2>1. \A q \in Request : \A a \in Attachment :
            pc'[q] = "insert" /\ op'[q].attachment = a => pc[q] = "insert" /\ op[q].attachment = a
    BY <1>2, NullAssumption
  <2> QED
    BY <1>2, <1>4, <2>1 DEF IdsFresh
<1>7. RemovalsKnow'
  BY <1>2, <1>4 DEF RemovalsKnow
<1>8. LinksHaveNone' /\ RowsHaveFiles'
  BY DEF LinksHaveNone, RowsHaveFiles
<1> QED
  BY <1>1, <1>3, <1>6, <1>7, <1>8

LEMMA WriteInv == ASSUME Inv, NEW r \in Request, Write(r) PROVE Inv'
<1> USE DEF Inv
<1>0. PICK a \in Attachment \ minted :
       /\ file' = [file EXCEPT ![a] = [task |-> op[r].task, whole |-> TRUE]]
       /\ minted' = minted \cup {a}
       /\ op' = [op EXCEPT ![r].attachment = a]
  BY DEF Write
<1>1. /\ pc[r] = "write" /\ pc' = [pc EXCEPT ![r] = "insert"]
      /\ UNCHANGED <<task, row, said, requests, failures, calm>>
  BY DEF Write, Goto
<1>2. op[r] \in Op /\ op[r].do = "uploadFile" /\ op[r].type = "FILE"
  BY <1>1 DEF TypeOK, Purposes
<1> DEFINE o == [op[r] EXCEPT !.attachment = a]
<1>3. /\ o \in Op /\ o.do = "uploadFile" /\ o.type = "FILE" /\ o.attachment = a
      /\ o.task = op[r].task
  BY <1>2 DEF Op
<1>4. op' = [op EXCEPT ![r] = o]
  BY <1>0
<1> HIDE DEF o
<1>5. TypeOK'
  <2>1. \A q \in Request : op'[q] = NULL <=> pc'[q] = "idle"
    BY <1>1, <1>3, <1>4, NullAssumption DEF TypeOK
  <2>2. [task |-> op[r].task, whole |-> TRUE] \in File
    BY <1>2 DEF Op, File
  <2> QED
    BY <1>0, <1>1, <1>3, <1>4, <2>1, <2>2 DEF TypeOK, Pc
<1>6. /\ pc'[r] = "insert" /\ op'[r] = o
      /\ \A q \in Request : q # r => pc'[q] = pc[q] /\ op'[q] = op[q]
      /\ file'[a] = [task |-> op[r].task, whole |-> TRUE]
      /\ \A b \in Attachment : b # a => file'[b] = file[b]
  BY <1>0, <1>1, <1>4 DEF TypeOK
<1>7. Purposes'
  BY <1>3, <1>6 DEF Purposes
<1>8. /\ \A q \in Request : \A b \in Attachment : Waiting(q, b)' => Waiting(q, b) \/ (q = r /\ b = a)
      /\ row[a] = NULL /\ file[a] = NULL
  <2>1. ASSUME NEW q \in Request, NEW b \in Attachment, Waiting(q, b)'
        PROVE  Waiting(q, b) \/ (q = r /\ b = a)
    <3>1. CASE q = r
      BY <1>3, <1>6, <2>1, <3>1 DEF Waiting
    <3>2. CASE q # r
      BY <1>6, <2>1, <3>2 DEF Waiting
    <3> QED
      BY <3>1, <3>2
  <2> QED
    BY <1>0, <2>1 DEF IdsFresh
<1>9. IdsFresh'
  <2>1. \A q \in Request : \A b \in Attachment : pc[q] = "insert" /\ op[q].attachment = b => b # a
    <3> SUFFICES ASSUME NEW q \in Request, pc[q] = "insert", op[q].attachment = a PROVE FALSE
      OBVIOUS
    <3>1. op[q].do \in {"uploadFile", "addLink"}
      BY DEF Purposes
    <3>2. CASE op[q].do = "uploadFile"
      BY <1>0, <3>2 DEF IdsFresh, Waiting
    <3>3. CASE op[q].do = "addLink"
      BY <3>3, NullAssumption DEF Purposes
    <3> QED
      BY <3>1, <3>2, <3>3
  <2>2. \A b \in Attachment : row'[b] # NULL \/ file'[b] # NULL => b \in minted'
    BY <1>0, <1>1, <1>6 DEF IdsFresh
  <2>3. ASSUME NEW q \in Request, NEW b \in Attachment, Waiting(q, b)'
        PROVE  /\ b \in minted' /\ row'[b] = NULL
               /\ file'[b] = [task |-> op'[q].task, whole |-> TRUE]
               /\ \A p \in Request : pc'[p] = "insert" /\ op'[p].attachment = b => p = q
    <3>1. CASE q = r
      BY <1>0, <1>1, <1>3, <1>6, <1>8, <2>1, <2>3, <3>1 DEF Waiting
    <3>2. CASE q # r
      <4>1. Waiting(q, b) /\ b # a
        BY <1>6, <2>1, <2>3, <3>2 DEF Waiting
      <4> QED
        BY <1>0, <1>1, <1>3, <1>6, <3>2, <4>1 DEF IdsFresh
    <3> QED
      BY <3>1, <3>2
  <2> QED
    BY <2>2, <2>3 DEF IdsFresh
<1>10. RemovalsKnow'
  BY <1>0, <1>1, <1>6, <1>8 DEF RemovalsKnow
<1>11. LinksHaveNone' /\ RowsHaveFiles'
  BY <1>0, <1>1, <1>6, <1>8 DEF LinksHaveNone, RowsHaveFiles
<1> QED
  BY <1>5, <1>7, <1>9, <1>10, <1>11

LEMMA InsertInv == ASSUME Inv, NEW r \in Request, Insert(r), op[r].task \in task PROVE Inv'
<1> USE DEF Inv
<1>0. PICK a \in IF op[r].do = "uploadFile" THEN {op[r].attachment} ELSE Attachment \ minted :
         /\ row' = [row EXCEPT ![a] = [task |-> op[r].task, type |-> op[r].type]]
         /\ minted' = minted \cup {a}
         /\ op' = [op EXCEPT ![r].attachment = a]
  BY DEF Insert
<1>1. /\ pc[r] = "insert" /\ pc' = [pc EXCEPT ![r] = "added"]
      /\ UNCHANGED <<task, file, said, requests, failures, calm>>
  BY DEF Insert, Goto, Refuse, Finish
<1>2. op[r] \in Op /\ op[r].do \in {"uploadFile", "addLink"}
  BY <1>1 DEF TypeOK, Purposes
<1> DEFINE o == [op[r] EXCEPT !.attachment = a]
<1>3. /\ a \in Attachment
      /\ o \in Op /\ o.do = op[r].do /\ o.type = op[r].type /\ o.attachment = a
      /\ [task |-> op[r].task, type |-> op[r].type] \in AttachmentRow
  <2>1. a \in Attachment
    BY <1>0, <1>1, <1>2 DEF Purposes
  <2> QED
    BY <1>2, <2>1 DEF Op, AttachmentRow
<1>4. op' = [op EXCEPT ![r] = o]
  BY <1>0
<1> HIDE DEF o
<1>5. TypeOK'
  <2>1. \A q \in Request : op'[q] = NULL <=> pc'[q] = "idle"
    BY <1>1, <1>3, <1>4, NullAssumption DEF TypeOK
  <2> QED
    BY <1>0, <1>1, <1>3, <1>4, <2>1 DEF TypeOK, Pc
<1>6. /\ pc'[r] = "added" /\ op'[r] = o
      /\ \A q \in Request : q # r => pc'[q] = pc[q] /\ op'[q] = op[q]
      /\ row'[a] = [task |-> op[r].task, type |-> op[r].type]
      /\ \A b \in Attachment : b # a => row'[b] = row[b]
  BY <1>0, <1>1, <1>3, <1>4 DEF TypeOK
<1>7. Purposes'
  <2>1. op[r].do = "uploadFile" => op[r].type = "FILE"
    BY <1>1, <1>2, NullAssumption DEF Purposes
  <2>2. op[r].do = "addLink" => op[r].type = "LINK"
    BY <1>1, <1>2, NullAssumption DEF Purposes
  <2>3. \A q \in Request : q # r => pc'[q] = pc[q] /\ op'[q] = op[q]
    BY <1>6
  <2> QED
    BY <1>2, <1>3, <1>6, <2>1, <2>2, <2>3 DEF Purposes
<1>8. /\ \A q \in Request : \A b \in Attachment : Waiting(q, b)' => Waiting(q, b) /\ q # r
      /\ Waiting(r, a) \/ (op[r].do = "addLink" /\ a \notin minted)
  <2>1. \A q \in Request : \A b \in Attachment : Waiting(q, b)' => Waiting(q, b) /\ q # r
    BY <1>6 DEF Waiting
  <2>2. CASE op[r].do = "uploadFile"
    BY <1>0, <1>1, <2>1, <2>2 DEF Waiting
  <2>3. CASE op[r].do = "addLink"
    BY <1>0, <2>1, <2>3
  <2> QED
    BY <1>2, <2>2, <2>3
<1>9. /\ Waiting(r, a) => /\ file[a] = [task |-> op[r].task, whole |-> TRUE]
                          /\ op[r].type = "FILE"
      /\ ~Waiting(r, a) => file[a] = NULL /\ op[r].type = "LINK"
      /\ row[a] = NULL
      /\ \A q \in Request : Waiting(q, a) => q = r
  <2>1. op[r].do = "uploadFile" => op[r].type = "FILE"
    BY <1>1 DEF Purposes, TypeOK
  <2>2. op[r].do = "addLink" => op[r].type = "LINK"
    BY <1>1 DEF Purposes, TypeOK
  <2>3. CASE Waiting(r, a)
    BY <1>3, <2>1, <2>3 DEF IdsFresh, Waiting
  <2>4. CASE ~Waiting(r, a)
    BY <1>3, <1>8, <2>2, <2>4 DEF IdsFresh
  <2> QED
    BY <2>3, <2>4
<1>10. IdsFresh'
  <2>1. \A b \in Attachment : row'[b] # NULL \/ file'[b] # NULL => b \in minted'
    BY <1>0, <1>1, <1>6 DEF IdsFresh
  <2>2. ASSUME NEW q \in Request, NEW b \in Attachment, Waiting(q, b)'
        PROVE  /\ b \in minted' /\ row'[b] = NULL
               /\ file'[b] = [task |-> op'[q].task, whole |-> TRUE]
               /\ \A p \in Request : pc'[p] = "insert" /\ op'[p].attachment = b => p = q
    <3>1. Waiting(q, b) /\ q # r /\ b # a
      BY <1>8, <1>9, <2>2
    <3> QED
      BY <1>0, <1>1, <1>6, <3>1 DEF IdsFresh
  <2> QED
    BY <2>1, <2>2 DEF IdsFresh
<1>11. RemovalsKnow'
  <2>1. \A q \in Request :
            pc[q] \in {"delete", "unlink", "removed"} => op[q].attachment # a
    BY <1>3, <1>8 DEF RemovalsKnow
  <2> QED
    BY <1>0, <1>1, <1>6, <1>8, <2>1 DEF RemovalsKnow
<1>12. LinksHaveNone' /\ RowsHaveFiles'
  <2>1. \A b \in Attachment : b # a => row'[b] = row[b] /\ file'[b] = file[b]
    BY <1>1, <1>6
  <2>2. [task |-> op[r].task, whole |-> TRUE] \in File
    BY <1>2 DEF Op, File
  <2>3. row'[a].type = op[r].type /\ row'[a].task = op[r].task /\ file'[a] = file[a]
    BY <1>1, <1>6
  <2>4. LinksHaveNone'
    BY <1>9, <2>1, <2>3 DEF LinksHaveNone
  <2>5. RowsHaveFiles'
    <3>1. row'[a].type = "FILE" <=> file'[a] = [task |-> row'[a].task, whole |-> TRUE]
      BY <1>9, <2>2, <2>3, NullAssumption
    <3> QED
      BY <2>1, <3>1 DEF RowsHaveFiles
  <2> QED
    BY <2>4, <2>5
<1> QED
  BY <1>5, <1>7, <1>10, <1>11, <1>12

LEMMA FindInv == ASSUME Inv, NEW r \in Request, Find(r) PROVE Inv'
<1> USE DEF Inv
<1>1. CASE Refuse(r)
  BY <1>1, Leaving DEF Refuse, Finish, Goto, stores, TypeOK
<1>2. ASSUME Found(op[r].attachment, op[r].task),
             op' = [op EXCEPT ![r].type = row[op[r].attachment].type],
             Goto(r, "delete"), UNCHANGED stores
      PROVE  Inv'
  <2> DEFINE a == op[r].attachment
             o == [op[r] EXCEPT !.type = row[a].type]
  <2>1. /\ pc[r] = "find" /\ pc' = [pc EXCEPT ![r] = "delete"]
        /\ UNCHANGED <<task, row, file, minted, said, requests, failures, calm>>
    BY <1>2 DEF Find, Goto, stores
  <2>2. op[r] \in Op /\ a \in Attachment /\ op[r].do = "remove" /\ row[a] \in AttachmentRow
    BY <1>2, <2>1 DEF TypeOK, Purposes, Found
  <2>3. o \in Op /\ o.do = "remove" /\ o.attachment = a /\ o.type = row[a].type
    BY <2>2 DEF Op, AttachmentRow
  <2>4. op' = [op EXCEPT ![r] = o]
    BY <1>2
  <2> HIDE DEF o
  <2>5. TypeOK'
    <3>1. \A q \in Request : op'[q] = NULL <=> pc'[q] = "idle"
      BY <2>1, <2>3, <2>4, NullAssumption DEF TypeOK
    <3> QED
      BY <2>1, <2>3, <2>4, <3>1 DEF TypeOK, Pc
  <2>6. /\ pc'[r] = "delete" /\ op'[r] = o
        /\ \A q \in Request : q # r => pc'[q] = pc[q] /\ op'[q] = op[q]
    BY <2>1, <2>4 DEF TypeOK
  <2>7. Purposes'
    BY <2>2, <2>3, <2>6 DEF Purposes
  <2>8. \A q \in Request : \A b \in Attachment : Waiting(q, b)' => Waiting(q, b) /\ q # r
    BY <2>6 DEF Waiting
  <2>9. IdsFresh'
    BY <2>1, <2>6, <2>8 DEF IdsFresh
  <2>10. RemovalsKnow'
    <3>1. a \in minted /\ row[a] # NULL /\ \A q \in Request : ~Waiting(q, a)
      BY <1>2, <2>2 DEF IdsFresh, Found
    <3>2. row[a].type = "LINK" => file[a] = NULL
      BY <2>2, <3>1 DEF LinksHaveNone
    <3> QED
      BY <2>1, <2>3, <2>6, <2>8, <3>1, <3>2 DEF RemovalsKnow
  <2>11. LinksHaveNone' /\ RowsHaveFiles'
    BY <2>1 DEF LinksHaveNone, RowsHaveFiles
  <2> QED
    BY <2>5, <2>7, <2>9, <2>10, <2>11
<1> QED
  BY <1>1, <1>2 DEF Find

\* The steps of a removal that write: the row, then the file.
LEMMA RemovingInv ==
    ASSUME Inv, NEW r \in Request, Delete(r) \/ Unlink(r) \/ UnlinkFails(r)
    PROVE  Inv'
<1> USE DEF Inv
<1> DEFINE a == op[r].attachment
<1>1. PICK label \in {"unlink", "removed"} :
         /\ pc' = [pc EXCEPT ![r] = label]
         /\ label = "unlink" => pc[r] = "delete" /\ row' = [row EXCEPT ![a] = NULL] /\ file' = file
         /\ label = "removed" => pc[r] = "unlink" /\ row' = row /\
               (file' = file \/ file' = [file EXCEPT ![a] = IF op[r].type = "FILE" THEN NULL ELSE @])
  BY DEF Delete, Unlink, UnlinkFails, Goto, stores
<1>2. /\ UNCHANGED <<task, minted, said, op, requests, calm>> /\ failures' \in Nat
      /\ pc[r] \in {"delete", "unlink"}
  BY DEF Delete, Unlink, UnlinkFails, Goto, stores, TypeOK
<1>3. a \in Attachment /\ op[r].do = "remove" /\ op[r] # NULL
  BY <1>2 DEF TypeOK, Purposes
<1>4. /\ pc'[r] = label /\ \A q \in Request : q # r => pc'[q] = pc[q]
      /\ \A b \in Attachment : b # a => row'[b] = row[b] /\ file'[b] = file[b]
      /\ row'[a] = NULL /\ file'[a] \in {file[a], NULL}
  <2>1. pc[r] = "unlink" => row[a] = NULL
    BY <1>3 DEF RemovalsKnow
  <2> QED
    BY <1>1, <1>3, <2>1 DEF TypeOK
<1>5. TypeOK'
  <2>1. \A q \in Request : op'[q] = NULL <=> pc'[q] = "idle"
    BY <1>2, <1>3, <1>4 DEF TypeOK
  <2>2. row' \in [Attachment -> AttachmentRow \cup {NULL}] /\ file' \in [Attachment -> File \cup {NULL}]
    BY <1>1 DEF TypeOK
  <2> QED
    BY <1>1, <1>2, <2>1, <2>2 DEF TypeOK, Pc
<1>6. Purposes'
  BY <1>2, <1>3, <1>4 DEF Purposes
<1>7. \A q \in Request : \A b \in Attachment : Waiting(q, b)' => Waiting(q, b) /\ q # r /\ b # a
  <2>1. \A q \in Request : ~Waiting(q, a)
    BY <1>2, <1>3 DEF RemovalsKnow
  <2> QED
    BY <1>2, <1>4, <2>1 DEF Waiting
<1>8. IdsFresh'
  BY <1>2, <1>4, <1>7 DEF IdsFresh
<1>9. RemovalsKnow'
  BY <1>2, <1>4, <1>7 DEF RemovalsKnow
<1>10. LinksHaveNone' /\ RowsHaveFiles'
  BY <1>4 DEF LinksHaveNone, RowsHaveFiles
<1> QED
  BY <1>5, <1>6, <1>8, <1>9, <1>10

LEMMA WriteFailsInv == ASSUME Inv, NEW r \in Request, WriteFails(r) PROVE Inv'
<1> USE DEF Inv
<1>0. PICK a \in Attachment \ minted :
         /\ file' = [file EXCEPT ![a] = [task |-> op[r].task, whole |-> FALSE]]
         /\ minted' = minted \cup {a}
  BY DEF WriteFails
<1>1. /\ pc[r] = "write" /\ pc' = [pc EXCEPT ![r] = "idle"] /\ op' = [op EXCEPT ![r] = NULL]
      /\ UNCHANGED <<task, row, said, requests, calm>> /\ failures' \in Nat
  BY DEF WriteFails, TypeOK
<1>2. TypeOK'
  <2>1. \A q \in Request : op'[q] = NULL <=> pc'[q] = "idle"
    BY <1>1 DEF TypeOK
  <2>2. [task |-> op[r].task, whole |-> FALSE] \in File
    BY <1>1 DEF TypeOK, Op, File
  <2> QED
    BY <1>0, <1>1, <2>1, <2>2 DEF TypeOK, Pc
<1>3. /\ pc'[r] = "idle" /\ op'[r] = NULL
      /\ \A q \in Request : q # r => pc'[q] = pc[q] /\ op'[q] = op[q]
      /\ \A b \in Attachment : b # a => file'[b] = file[b]
      /\ row[a] = NULL
  BY <1>0, <1>1 DEF TypeOK, IdsFresh
<1>4. Purposes'
  BY <1>3 DEF Purposes
<1>5. \A q \in Request : \A b \in Attachment : Waiting(q, b)' => Waiting(q, b) /\ q # r
  BY <1>3 DEF Waiting
<1>6. IdsFresh'
  <2>1. \A q \in Request : ~Waiting(q, a)
    BY <1>0 DEF IdsFresh
  <2> QED
    BY <1>0, <1>1, <1>3, <1>5, <2>1 DEF IdsFresh
<1>7. RemovalsKnow'
  BY <1>0, <1>1, <1>3, <1>5 DEF RemovalsKnow
<1>8. LinksHaveNone' /\ RowsHaveFiles'
  BY <1>1, <1>3 DEF LinksHaveNone, RowsHaveFiles
<1> QED
  BY <1>2, <1>4, <1>6, <1>7, <1>8

LEMMA DeleteTaskInv == ASSUME Inv, NEW t \in Task, DeleteTask(t) PROVE Inv'
<1> USE DEF Inv
<1>1. /\ \A a \in Attachment : row'[a] = row[a] \/ row'[a] = NULL
      /\ task' \subseteq Task /\ row' \in [Attachment -> AttachmentRow \cup {NULL}]
      /\ UNCHANGED <<file, minted, said, op, pc, requests, failures, calm>>
  BY DEF DeleteTask, TypeOK
<1>2. TypeOK' /\ Purposes'
  BY <1>1 DEF TypeOK, Purposes
<1>3. \A q \in Request : \A b \in Attachment : Waiting(q, b)' <=> Waiting(q, b)
  BY <1>1 DEF Waiting
<1>4. IdsFresh' /\ RemovalsKnow'
  BY <1>1, <1>3 DEF IdsFresh, RemovalsKnow
<1>5. LinksHaveNone' /\ RowsHaveFiles'
  BY <1>1 DEF LinksHaveNone, RowsHaveFiles
<1> QED
  BY <1>2, <1>4, <1>5

LEMMA NextInv == ASSUME Inv, [Next]_vars PROVE Inv'
<1>1. ASSUME NEW r \in Request, NEW o \in Requests, Start(r, o)
      PROVE  Inv'
  <2>1. /\ o \in Op
        /\ o.do = "uploadFile" => o.type = "FILE"
        /\ o.do = "addLink" => o.type = "LINK" /\ o.attachment = NULL
        /\ o.do = "remove" => o.attachment \in Attachment
    BY DEF Requests, Op, AttachmentType, Inv, TypeOK
  <2>2. /\ pc' = [pc EXCEPT ![r] = "access"] /\ op' = [op EXCEPT ![r] = o]
        /\ UNCHANGED <<task, row, file, minted, said, failures, calm>>
        /\ requests' \in Nat /\ failures' \in Nat
        /\ said' \in [Attachment -> {"added", "removed", NULL}]
    BY <1>1 DEF Start, stores, Inv, TypeOK
  <2>3. "access" \in Pc \ {"idle", "delete", "unlink", "removed"}
    BY DEF Pc
  <2> QED
    BY <2>1, <2>2, <2>3, Going
<1>2. ASSUME NEW r \in Request, Access(r)
      PROVE  Inv'
  <2>1. CASE Refuse(r)
    BY <2>1, Leaving DEF Refuse, Finish, Goto, stores, Inv, TypeOK
  <2>2. CASE Goto(r, First[op[r].do]) /\ UNCHANGED <<stores, op>>
    <3> DEFINE o == op[r]
    <3>1. /\ o \in Op /\ op' = [op EXCEPT ![r] = o]
          /\ o.do = "uploadFile" => o.type = "FILE"
          /\ o.do = "addLink" => o.type = "LINK" /\ o.attachment = NULL
          /\ o.do = "remove" => o.attachment \in Attachment
      BY <1>2, <2>2 DEF Access, Inv, TypeOK, Purposes
    <3>2. /\ o.do \in {"uploadFile", "addLink", "remove"}
          /\ First[o.do] \in Pc \ {"idle", "delete", "unlink", "removed", "access", "added"}
          /\ First[o.do] = "insert" => o.do = "addLink"
          /\ First[o.do] = "write" => o.do = "uploadFile"
          /\ First[o.do] = "find" => o.do = "remove"
      BY <3>1 DEF Op, First, Pc
    <3> HIDE DEF o
    <3> QED
      BY <2>2, <3>1, <3>2, Going DEF Goto, stores, Inv, TypeOK, o
  <2> QED
    BY <1>2, <2>1, <2>2 DEF Access
<1>3. ASSUME NEW r \in Request, Write(r)
      PROVE  Inv'
  BY <1>3, WriteInv
<1>4. ASSUME NEW r \in Request, WriteFails(r)
      PROVE  Inv'
  BY <1>4, WriteFailsInv
<1>5. ASSUME NEW r \in Request, Insert(r)
      PROVE  Inv'
  <2>1. CASE op[r].task \in task
    BY <1>5, <2>1, InsertInv
  <2>2. CASE op[r].task \notin task
    BY <1>5, <2>2, Leaving DEF Insert, Refuse, Finish, Goto, stores, Inv, TypeOK
  <2> QED
    BY <2>1, <2>2
<1>6. ASSUME NEW r \in Request, NEW event \in {"added", "removed"}, Announce(r, event)
      PROVE  Inv'
  <2>1. /\ said' \in [Attachment -> {"added", "removed", NULL}]
        /\ pc' = [pc EXCEPT ![r] = "idle"] /\ op' = [op EXCEPT ![r] = NULL]
        /\ UNCHANGED <<task, row, file, minted, requests, failures, calm>>
    BY <1>6 DEF Announce, Finish, Goto, Inv, TypeOK
  <2> QED
    BY <2>1, Leaving DEF Inv, TypeOK
<1>7. ASSUME NEW r \in Request, Find(r)
      PROVE  Inv'
  BY <1>7, FindInv
<1>8. ASSUME NEW r \in Request, Delete(r) \/ Unlink(r) \/ UnlinkFails(r)
      PROVE  Inv'
  BY <1>8, RemovingInv
<1>9. ASSUME NEW r \in Request, Fail(r)
      PROVE  Inv'
  <2>1. /\ pc' = [pc EXCEPT ![r] = "idle"] /\ op' = [op EXCEPT ![r] = NULL]
        /\ UNCHANGED <<task, row, file, minted, said, requests, calm>>
        /\ failures' \in Nat
    BY <1>9 DEF Fail, stores, Inv, TypeOK
  <2> QED
    BY <2>1, Leaving DEF Inv, TypeOK
<1>10. ASSUME NEW t \in Task, DeleteTask(t)
       PROVE  Inv'
  BY <1>10, DeleteTaskInv
<1>11. CASE UNCHANGED vars
  <2>1. UNCHANGED <<task, row, file, minted, said, op, pc, requests, failures, calm>>
    BY <1>11 DEF vars
  <2>2. TypeOK' /\ Purposes' /\ LinksHaveNone' /\ RowsHaveFiles'
    BY <2>1 DEF Inv, TypeOK, Purposes, LinksHaveNone, RowsHaveFiles
  <2>3. IdsFresh' /\ RemovalsKnow'
    BY <2>1 DEF Inv, IdsFresh, RemovalsKnow, Waiting
  <2> QED
    BY <2>2, <2>3 DEF Inv
<1> QED
  BY <1>1, <1>2, <1>3, <1>4, <1>5, <1>6, <1>7, <1>8, <1>9, <1>10, <1>11 DEF Next, Step

-----------------------------------------------------------------------------
(* Files without a row.                                                    *)

\* Nobody else knows of a file that r is about to give a row, or to remove.
LEMMA OrphansKept ==
    ASSUME Inv, NoOrphanFiles, NEW r \in Request, pc[r] \notin {"insert", "unlink"},
           UNCHANGED <<row, file, task>>, failures' = 0 => failures = 0,
           NEW label \in Pc, NEW o, pc' = [pc EXCEPT ![r] = label], op' = [op EXCEPT ![r] = o]
    PROVE  NoOrphanFiles'
<1>1. \A q \in Request : q # r => pc'[q] = pc[q] /\ op'[q] = op[q]
  BY DEF Inv, TypeOK
<1>2. \A a \in Attachment : \A q \in Handling(a) :
          pc[q] \in {"insert", "unlink"} => q \in Handling(a)' /\ pc'[q] = pc[q]
  BY <1>1 DEF Handling
<1> QED
  BY <1>2 DEF NoOrphanFiles

LEMMA NextOrphans ==
    ASSUME Inv, NoOrphanFiles, [Next]_vars
    PROVE  NoOrphanFiles'
<1> USE DEF Inv
<1>1. ASSUME NEW r \in Request, NEW o \in Requests, Start(r, o)
      PROVE  NoOrphanFiles'
  BY <1>1, OrphansKept DEF Start, stores, Pc
<1>2. ASSUME NEW r \in Request, pc[r] \notin {"insert", "unlink"}, Refuse(r)
      PROVE  NoOrphanFiles'
  <2>1. pc' = [pc EXCEPT ![r] = "idle"] /\ op' = [op EXCEPT ![r] = NULL] /\ "idle" \in Pc
    BY <1>2 DEF Refuse, Finish, Goto, Pc
  <2> QED
    BY <1>2, <2>1, OrphansKept DEF Refuse, Finish, Goto, stores
<1>3. ASSUME NEW r \in Request, Access(r)
      PROVE  NoOrphanFiles'
  <2>1. CASE Refuse(r)
    BY <1>2, <1>3, <2>1 DEF Access
  <2>2. CASE Goto(r, First[op[r].do]) /\ UNCHANGED <<stores, op>>
    <3>1. op[r].do \in {"uploadFile", "addLink", "remove"}
      BY <1>3 DEF Access, TypeOK, Op
    <3>2. First[op[r].do] \in Pc /\ op' = [op EXCEPT ![r] = op[r]]
      BY <2>2, <3>1 DEF First, Pc, TypeOK
    <3> QED
      BY <1>3, <2>2, <3>2, OrphansKept DEF Access, Goto, stores
  <2> QED
    BY <1>3, <2>1, <2>2 DEF Access
<1>4. ASSUME NEW r \in Request, Write(r)
      PROVE  NoOrphanFiles'
  <2>1. PICK a \in Attachment \ minted :
           /\ file' = [file EXCEPT ![a] = [task |-> op[r].task, whole |-> TRUE]]
           /\ op' = [op EXCEPT ![r].attachment = a]
    BY <1>4 DEF Write
  <2>2. /\ pc[r] = "write" /\ pc' = [pc EXCEPT ![r] = "insert"]
        /\ UNCHANGED <<task, row, failures>>
    BY <1>4 DEF Write, Goto
  <2>3. op'[r].attachment = a /\ pc'[r] = "insert"
    BY <2>1, <2>2 DEF TypeOK, Op
  <2>4. \A q \in Request : q # r => pc'[q] = pc[q] /\ op'[q] = op[q]
    BY <2>1, <2>2 DEF TypeOK
  <2>5. \A b \in Attachment : b # a => file'[b] = file[b]
    BY <2>1 DEF TypeOK
  <2>6. \A b \in Attachment : \A q \in Handling(b) :
            pc[q] \in {"insert", "unlink"} => q \in Handling(b)' /\ pc'[q] = pc[q]
    BY <2>2, <2>4 DEF Handling
  <2>7. r \in Handling(a)'
    BY <2>3 DEF Handling
  <2> QED
    BY <2>2, <2>3, <2>5, <2>6, <2>7 DEF NoOrphanFiles
<1>5. ASSUME NEW r \in Request, Insert(r)
      PROVE  NoOrphanFiles'
  <2>1. pc[r] = "insert" /\ UNCHANGED <<task, file, failures>>
    BY <1>5 DEF Insert, Refuse, Finish, Goto, stores
  <2>2. \A q \in Request : q # r => pc'[q] = pc[q] /\ op'[q] = op[q]
    BY <1>5 DEF Insert, Refuse, Finish, Goto, TypeOK
  <2>3. ASSUME NEW b \in Attachment, failures = 0, file[b] # NULL, row'[b] = NULL
        PROVE  \/ file[b].task \notin task
               \/ \E q \in Handling(b)' : pc'[q] \in {"insert", "unlink"}
    <3>1. row[b] = NULL
      BY <1>5, <2>3, NullAssumption DEF Insert, Refuse, stores, TypeOK, Op, AttachmentRow
    <3>2. CASE file[b].task \notin task
      BY <3>2
    <3>3. CASE file[b].task \in task
      <4>1. PICK q \in Handling(b) : pc[q] \in {"insert", "unlink"}
        BY <2>3, <3>1, <3>3 DEF NoOrphanFiles
      <4>2. q # r
        <5> SUFFICES ASSUME q = r PROVE FALSE
          OBVIOUS
        <5>1. op[r].attachment = b /\ op[r].do = "uploadFile"
          BY <2>1, <4>1, NullAssumption DEF Handling, Purposes
        <5>2. file[b].task = op[r].task
          <6>1. Waiting(r, b)
            BY <2>1, <5>1 DEF Waiting
          <6>2. file[b] = [task |-> op[r].task, whole |-> TRUE]
            BY <6>1 DEF IdsFresh
          <6> QED
            BY <6>2
        <5>3. op[r] \in Op
          BY <2>1 DEF TypeOK
        <5>4. [task |-> op[r].task, type |-> op[r].type] \in AttachmentRow
          BY <5>3 DEF Op, AttachmentRow
        <5>5. row' = [row EXCEPT ![b] = [task |-> op[r].task, type |-> op[r].type]]
          BY <1>5, <3>3, <5>1, <5>2 DEF Insert
        <5> QED
          BY <2>3, <5>4, <5>5, NullAssumption DEF TypeOK
      <4> QED
        BY <2>2, <4>1, <4>2 DEF Handling
    <3> QED
      BY <3>2, <3>3
  <2> QED
    BY <2>1, <2>3 DEF NoOrphanFiles
<1>6. ASSUME NEW r \in Request, NEW event \in {"added", "removed"}, Announce(r, event)
      PROVE  NoOrphanFiles'
  <2>1. pc' = [pc EXCEPT ![r] = "idle"] /\ op' = [op EXCEPT ![r] = NULL] /\ "idle" \in Pc
    BY <1>6 DEF Announce, Finish, Goto, Pc
  <2> QED
    BY <1>6, <2>1, OrphansKept DEF Announce, Finish, Goto
<1>7. ASSUME NEW r \in Request, Find(r)
      PROVE  NoOrphanFiles'
  <2>1. CASE Refuse(r)
    BY <1>2, <1>7, <2>1 DEF Find
  <2>2. CASE Goto(r, "delete") /\ UNCHANGED stores
             /\ op' = [op EXCEPT ![r].type = row[op[r].attachment].type]
    BY <1>7, <2>2, OrphansKept DEF Find, Goto, stores, Pc
  <2> QED
    BY <1>7, <2>1, <2>2 DEF Find
<1>8. ASSUME NEW r \in Request, Delete(r)
      PROVE  NoOrphanFiles'
  <2> DEFINE a == op[r].attachment
  <2>1. /\ pc[r] = "delete" /\ pc' = [pc EXCEPT ![r] = "unlink"]
        /\ row' = [row EXCEPT ![a] = NULL] /\ UNCHANGED <<task, file, op, failures>>
    BY <1>8 DEF Delete, Goto
  <2>2. /\ r \in Handling(a)' /\ pc'[r] = "unlink"
        /\ \A b \in Attachment : b # a => row'[b] = row[b]
        /\ \A b \in Attachment : \A q \in Handling(b) :
               pc[q] \in {"insert", "unlink"} => q \in Handling(b)' /\ pc'[q] = pc[q]
    BY <2>1 DEF Handling, TypeOK
  <2> QED
    BY <2>1, <2>2 DEF NoOrphanFiles
<1>9. ASSUME NEW r \in Request, Unlink(r)
      PROVE  NoOrphanFiles'
  <2> DEFINE a == op[r].attachment
  <2>1. /\ pc[r] = "unlink" /\ pc' = [pc EXCEPT ![r] = "removed"]
        /\ file' = [file EXCEPT ![a] = IF op[r].type = "FILE" THEN NULL ELSE @]
        /\ UNCHANGED <<task, row, op, failures>>
    BY <1>9 DEF Unlink, Goto
  <2>2. a \in Attachment /\ op[r].type \in {"FILE", "LINK"}
    BY <2>1 DEF Purposes, TypeOK, Op, AttachmentType
  <2>3. file'[a] = NULL
    BY <2>1, <2>2 DEF RemovalsKnow, TypeOK
  <2>4. /\ \A b \in Attachment : b # a => file'[b] = file[b]
        /\ \A b \in Attachment : \A q \in Handling(b) :
               b # a /\ pc[q] \in {"insert", "unlink"} => q \in Handling(b)' /\ pc'[q] = pc[q]
    BY <2>1, <2>2 DEF Handling, TypeOK
  <2> QED
    BY <2>1, <2>3, <2>4 DEF NoOrphanFiles
<1>10. ASSUME NEW r \in Request, WriteFails(r) \/ UnlinkFails(r) \/ Fail(r)
       PROVE  NoOrphanFiles'
  <2>1. failures' # 0
    BY <1>10 DEF WriteFails, UnlinkFails, Fail, TypeOK
  <2> QED
    BY <2>1 DEF NoOrphanFiles
<1>11. ASSUME NEW t \in Task, DeleteTask(t)
       PROVE  NoOrphanFiles'
  <2>1. /\ task' = task \ {t} /\ UNCHANGED <<file, op, pc, failures>>
        /\ \A a \in Attachment : row'[a] = IF Found(a, t) THEN NULL ELSE row[a]
    BY <1>11 DEF DeleteTask
  <2>2. \A a \in Attachment : Handling(a)' = Handling(a)
    BY <2>1 DEF Handling
  <2>3. \A a \in Attachment : Found(a, t) /\ file[a] # NULL => file[a].task = t
    <3> SUFFICES ASSUME NEW a \in Attachment, row[a] # NULL, row[a].task = t, file[a] # NULL
                 PROVE  file[a].task = t
      BY DEF Found
    <3>1. row[a].type \in {"FILE", "LINK"}
      BY DEF TypeOK, AttachmentRow, AttachmentType
    <3>2. file[a] = [task |-> row[a].task, whole |-> TRUE]
      BY <3>1 DEF RowsHaveFiles, LinksHaveNone
    <3> QED
      BY <3>2
  <2> QED
    BY <2>1, <2>2, <2>3 DEF NoOrphanFiles
<1>12. CASE UNCHANGED vars
  BY <1>12 DEF vars, NoOrphanFiles, Handling
<1> QED
  BY <1>1, <1>3, <1>4, <1>5, <1>6, <1>7, <1>8, <1>9, <1>10, <1>11, <1>12 DEF Next, Step

-----------------------------------------------------------------------------
(* The last word about an attachment.                                      *)

\* A request that is about to create attachment a, or to announce it.
Adds(r, a) ==
    /\ pc[r] = "added" \/ (pc[r] = "insert" /\ op[r].do = "uploadFile")
    /\ op[r].attachment = a

Removes(r, a) == pc[r] # "idle" /\ op[r].do = "remove" /\ op[r].attachment = a

\* The first word about an attachment is that of the one request that adds it,
\* and nobody removes it before.
FirstWord ==
    /\ \A r \in Request : pc[r] = "added" => op[r].do # "remove"
    /\ \A a \in Attachment : said[a] # NULL => a \in minted
    /\ \A a \in Attachment : \A r \in Request : Removes(r, a) => said[a] # NULL
    /\ \A a \in Attachment : \A r \in Request : Adds(r, a) =>
          /\ said[a] = NULL /\ a \in minted
          /\ \A q \in Request : Adds(q, a) => q = r

\* What the last event does not tell yet, a request is about to.
NextWord ==
    \A a \in Attachment :
        /\ row[a] # NULL => \/ said[a] = "added"
                            \/ \E r \in Request : pc[r] = "added" /\ op[r].attachment = a
        /\ task = Task =>
              /\ \A r \in Request : pc[r] = "added" /\ op[r].attachment = a => row[a] # NULL
              /\ said[a] = "added" =>
                    \/ row[a] # NULL
                    \/ \E r \in Request : pc[r] \in {"unlink", "removed"} /\ op[r].attachment = a

Words == calm /\ failures = 0 => FirstWord /\ NextWord

\* A request that has nothing to announce, before or after, changes nothing.
LEMMA WordsKept ==
    ASSUME Inv, Words, NEW r \in Request, pc[r] \notin {"added", "unlink", "removed"},
           UNCHANGED <<task, row, minted, said, calm>>, failures' = 0 => failures = 0,
           NEW label \in Pc \ {"added", "unlink", "removed"}, NEW o,
           pc' = [pc EXCEPT ![r] = label], op' = [op EXCEPT ![r] = o],
           label = "insert" => o.do # "uploadFile",
           calm /\ label # "idle" /\ o.do = "remove" =>
               \A a \in Attachment : o.attachment = a => said[a] # NULL
    PROVE  Words'
<1> SUFFICES ASSUME calm, failures = 0 PROVE FirstWord' /\ NextWord'
  BY DEF Words
<1>1. FirstWord /\ NextWord
  BY DEF Words
<1>2. /\ pc'[r] = label /\ op'[r] = o
      /\ \A q \in Request : q # r => pc'[q] = pc[q] /\ op'[q] = op[q]
  BY DEF Inv, TypeOK
<1>3. \A a \in Attachment : \A q \in Request : Adds(q, a)' => Adds(q, a)
  BY <1>2 DEF Adds
<1>4. ASSUME NEW a \in Attachment, NEW q \in Request, Removes(q, a)' PROVE said[a] # NULL
  <2>1. CASE q = r
    BY <1>2, <1>4, <2>1 DEF Removes
  <2>2. CASE q # r
    BY <1>1, <1>2, <1>4, <2>2 DEF Removes, FirstWord
  <2> QED
    BY <2>1, <2>2
<1>5. FirstWord'
  <2>1. \A q \in Request : pc'[q] = "added" => op'[q].do # "remove"
    BY <1>1, <1>2 DEF FirstWord
  <2> QED
    BY <1>1, <1>3, <1>4, <2>1 DEF FirstWord
<1>6. NextWord'
  BY <1>1, <1>2 DEF NextWord
<1> QED
  BY <1>5, <1>6

LEMMA RefuseWords ==
    ASSUME Inv, Words, NEW r \in Request, pc[r] \notin {"added", "unlink", "removed"}, Refuse(r)
    PROVE  Words'
<1>1. pc' = [pc EXCEPT ![r] = "idle"] /\ op' = [op EXCEPT ![r] = NULL]
  BY DEF Refuse, Finish, Goto
<1>2. UNCHANGED <<task, row, minted, said, calm, failures>> /\ "idle" \in Pc
  BY DEF Refuse, Finish, Goto, stores, Pc
<1> QED
  BY <1>1, <1>2, WordsKept

LEMMA StartWords ==
    ASSUME Inv, Words, NEW r \in Request, NEW o \in Requests, Start(r, o) PROVE Words'
<1>1. /\ pc[r] = "idle" /\ pc' = [pc EXCEPT ![r] = "access"] /\ op' = [op EXCEPT ![r] = o]
      /\ UNCHANGED <<task, row, minted, said, calm, failures>> /\ "access" \in Pc
  BY DEF Start, stores, Pc
<1>2. calm /\ o.do = "remove" => said[o.attachment] = "added"
  BY DEF Start
<1>3. "added" # NULL
  BY NullAssumption
<1> QED
  BY <1>1, <1>2, <1>3, WordsKept

LEMMA AccessWords == ASSUME Inv, Words, NEW r \in Request, Access(r) PROVE Words'
<1>1. CASE Refuse(r)
  BY <1>1, RefuseWords DEF Access
<1>2. CASE Goto(r, First[op[r].do]) /\ UNCHANGED <<stores, op>>
  <2>1. pc[r] = "access" /\ op[r] \in Op /\ op' = [op EXCEPT ![r] = op[r]]
    BY <1>2 DEF Access, Inv, TypeOK
  <2>2. /\ First[op[r].do] \in Pc \ {"added", "unlink", "removed"}
        /\ First[op[r].do] = "insert" => op[r].do # "uploadFile"
    BY <2>1 DEF Op, First, Pc
  <2>3. calm /\ failures = 0 /\ op[r].do = "remove" =>
            \A a \in Attachment : op[r].attachment = a => said[a] # NULL
    BY <2>1 DEF Words, FirstWord, Removes
  <2>4. UNCHANGED <<task, row, minted, said, calm, failures>> /\ pc' = [pc EXCEPT ![r] = First[op[r].do]]
    BY <1>2 DEF Goto, stores
  <2>5. CASE failures = 0
    BY <2>1, <2>2, <2>3, <2>4, <2>5, WordsKept
  <2>6. CASE failures # 0
    BY <2>4, <2>6 DEF Words
  <2> QED
    BY <2>5, <2>6
<1> QED
  BY <1>1, <1>2 DEF Access

LEMMA FindWords == ASSUME Inv, Words, NEW r \in Request, Find(r) PROVE Words'
<1>1. CASE Refuse(r)
  BY <1>1, RefuseWords DEF Find
<1>2. ASSUME op' = [op EXCEPT ![r].type = row[op[r].attachment].type],
             Goto(r, "delete"), UNCHANGED stores
      PROVE  Words'
  <2> DEFINE o == [op[r] EXCEPT !.type = row[op[r].attachment].type]
  <2>1. pc[r] = "find" /\ op[r] \in Op /\ op' = [op EXCEPT ![r] = o] /\ "delete" \in Pc
    BY <1>2 DEF Find, Inv, TypeOK, Pc
  <2>2. o.attachment = op[r].attachment /\ op[r].do = "remove"
    BY <2>1 DEF Op, Inv, Purposes
  <2>3. calm /\ failures = 0 => \A a \in Attachment : o.attachment = a => said[a] # NULL
    BY <2>1, <2>2 DEF Words, FirstWord, Removes
  <2>4. UNCHANGED <<task, row, minted, said, calm, failures>> /\ pc' = [pc EXCEPT ![r] = "delete"]
    BY <1>2 DEF Goto, stores
  <2> HIDE DEF o
  <2>5. CASE failures = 0
    BY <2>1, <2>3, <2>4, <2>5, WordsKept
  <2>6. CASE failures # 0
    BY <2>4, <2>6 DEF Words
  <2> QED
    BY <2>5, <2>6
<1> QED
  BY <1>1, <1>2 DEF Find

LEMMA WriteWords == ASSUME Inv, Words, NEW r \in Request, Write(r) PROVE Words'
<1> SUFFICES ASSUME calm, failures = 0 PROVE FirstWord' /\ NextWord'
  BY DEF Words, Write, Goto
<1>0. PICK a \in Attachment \ minted :
         minted' = minted \cup {a} /\ op' = [op EXCEPT ![r].attachment = a]
  BY DEF Write
<1>1. /\ pc[r] = "write" /\ pc' = [pc EXCEPT ![r] = "insert"]
      /\ UNCHANGED <<task, row, said>> /\ FirstWord /\ NextWord
  BY DEF Write, Goto, Words
<1>2. /\ pc'[r] = "insert" /\ op'[r].attachment = a /\ op'[r].do = "uploadFile"
      /\ \A q \in Request : q # r => pc'[q] = pc[q] /\ op'[q] = op[q]
  BY <1>0, <1>1 DEF Inv, TypeOK, Purposes, Op
<1>3. said[a] = NULL /\ \A q \in Request : ~Adds(q, a)
  BY <1>0, <1>1 DEF FirstWord
<1>4. \A q \in Request : \A b \in Attachment : Adds(q, b)' => Adds(q, b) \/ (q = r /\ b = a)
  BY <1>2 DEF Adds
<1>5. \A q \in Request : \A b \in Attachment : Removes(q, b)' => Removes(q, b)
  BY <1>2 DEF Removes
<1>6. FirstWord'
  <2>1. ASSUME NEW q \in Request, NEW b \in Attachment, Adds(q, b)'
        PROVE  said'[b] = NULL /\ b \in minted' /\ \A p \in Request : Adds(p, b)' => p = q
    BY <1>0, <1>1, <1>3, <1>4, <2>1 DEF FirstWord
  <2>2. \A q \in Request : pc'[q] = "added" => op'[q].do # "remove"
    BY <1>1, <1>2 DEF FirstWord
  <2> QED
    BY <1>0, <1>1, <1>5, <2>1, <2>2 DEF FirstWord
<1>7. NextWord'
  BY <1>1, <1>2 DEF NextWord
<1> QED
  BY <1>6, <1>7

LEMMA InsertWords ==
    ASSUME Inv, Words, NEW r \in Request, Insert(r), op[r].task \in task PROVE Words'
<1>0. PICK a \in IF op[r].do = "uploadFile" THEN {op[r].attachment} ELSE Attachment \ minted :
         /\ row' = [row EXCEPT ![a] = [task |-> op[r].task, type |-> op[r].type]]
         /\ minted' = minted \cup {a}
         /\ op' = [op EXCEPT ![r].attachment = a]
  BY DEF Insert
<1>1. /\ pc[r] = "insert" /\ pc' = [pc EXCEPT ![r] = "added"]
      /\ UNCHANGED <<task, said, calm, failures>>
  BY DEF Insert, Goto, Refuse, Finish
<1> SUFFICES ASSUME calm, failures = 0 PROVE FirstWord' /\ NextWord'
  BY <1>1 DEF Words
<1>2. /\ op[r] \in Op /\ op[r].do \in {"uploadFile", "addLink"} /\ a \in Attachment
      /\ FirstWord /\ NextWord
  BY <1>0, <1>1 DEF Inv, TypeOK, Purposes, Words
<1>3. /\ pc'[r] = "added" /\ op'[r].attachment = a /\ op'[r].do = op[r].do
      /\ \A q \in Request : q # r => pc'[q] = pc[q] /\ op'[q] = op[q]
      /\ \A b \in Attachment : b # a => row'[b] = row[b]
  BY <1>0, <1>1, <1>2 DEF Inv, TypeOK, Op
<1>4. row'[a] # NULL
  <2>1. [task |-> op[r].task, type |-> op[r].type] \in AttachmentRow
    BY <1>2 DEF Op, AttachmentRow
  <2> QED
    BY <1>0, <1>2, <2>1, NullAssumption DEF Inv, TypeOK
<1>5. said[a] = NULL /\ \A q \in Request : Adds(q, a) => q = r
  <2>1. CASE op[r].do = "uploadFile"
    BY <1>0, <1>1, <1>2, <2>1 DEF Adds, FirstWord
  <2>2. CASE op[r].do # "uploadFile"
    BY <1>0, <1>2, <2>2 DEF FirstWord
  <2> QED
    BY <2>1, <2>2
<1>6. \A q \in Request : \A b \in Attachment : Adds(q, b)' => (Adds(q, b) /\ b # a) \/ (q = r /\ b = a)
  BY <1>3, <1>5 DEF Adds
<1>7. \A q \in Request : \A b \in Attachment : Removes(q, b)' => Removes(q, b)
  BY <1>2, <1>3 DEF Removes
<1>8. FirstWord'
  <2>1. ASSUME NEW q \in Request, NEW b \in Attachment, Adds(q, b)'
        PROVE  said'[b] = NULL /\ b \in minted' /\ \A p \in Request : Adds(p, b)' => p = q
    BY <1>0, <1>1, <1>2, <1>5, <1>6, <2>1 DEF FirstWord
  <2>2. \A q \in Request : pc'[q] = "added" => op'[q].do # "remove"
    BY <1>2, <1>3 DEF FirstWord
  <2> QED
    BY <1>0, <1>1, <1>2, <1>7, <2>1, <2>2 DEF FirstWord
<1>9. NextWord'
  <2>1. said[a] # "added"
    BY <1>5, NullAssumption
  <2>2. \A q \in Request : pc[q] \in {"added", "unlink", "removed"} => q # r
    BY <1>1
  <2> QED
    BY <1>1, <1>2, <1>3, <1>4, <2>1, <2>2 DEF NextWord
<1> QED
  BY <1>8, <1>9

LEMMA AnnounceWords ==
    ASSUME Inv, Words, NEW r \in Request, NEW event \in {"added", "removed"}, Announce(r, event)
    PROVE  Words'
<1> DEFINE a == op[r].attachment
<1>1. /\ pc[r] = event /\ pc' = [pc EXCEPT ![r] = "idle"] /\ op' = [op EXCEPT ![r] = NULL]
      /\ said' = [said EXCEPT ![a] = event]
      /\ UNCHANGED <<task, row, minted, calm, failures>>
  BY DEF Announce, Finish, Goto
<1> SUFFICES ASSUME calm, failures = 0 PROVE FirstWord' /\ NextWord'
  BY <1>1 DEF Words
<1>2. a \in Attachment /\ FirstWord /\ NextWord
  BY <1>1 DEF Inv, Purposes, Words
<1>3. /\ pc'[r] = "idle" /\ \A q \in Request : q # r => pc'[q] = pc[q] /\ op'[q] = op[q]
      /\ said'[a] = event /\ \A b \in Attachment : b # a => said'[b] = said[b]
  BY <1>1, <1>2 DEF Inv, TypeOK
<1>4. /\ \A q \in Request : \A b \in Attachment : Adds(q, b)' => Adds(q, b) /\ q # r
      /\ \A q \in Request : \A b \in Attachment : Removes(q, b)' => Removes(q, b)
  BY <1>3 DEF Adds, Removes
<1>5. \A q \in Request : q # r => ~Adds(q, a)
  <2>1. CASE event = "added"
    BY <1>1, <1>2, <2>1 DEF Adds, FirstWord
  <2>2. CASE event = "removed"
    BY <1>1, <1>2, <2>2 DEF Removes, FirstWord, Inv, Purposes
  <2> QED
    BY <2>1, <2>2
<1>6. a \in minted /\ event # NULL
  <2>1. CASE event = "added"
    BY <1>1, <1>2, <2>1, NullAssumption DEF Adds, FirstWord
  <2>2. CASE event = "removed"
    BY <1>1, <1>2, <2>2, NullAssumption DEF RemovalsKnow, Inv
  <2> QED
    BY <2>1, <2>2
<1>7. FirstWord'
  <2>1. \A q \in Request : pc'[q] = "added" => op'[q].do # "remove"
    BY <1>2, <1>3 DEF FirstWord
  <2>2. ASSUME NEW q \in Request, NEW b \in Attachment, Adds(q, b)'
        PROVE  said'[b] = NULL /\ b \in minted' /\ \A p \in Request : Adds(p, b)' => p = q
    <3>1. Adds(q, b) /\ q # r /\ b # a
      BY <1>4, <1>5, <2>2
    <3> QED
      BY <1>1, <1>2, <1>3, <1>4, <3>1 DEF FirstWord
  <2>3. ASSUME NEW b \in Attachment
        PROVE  /\ said'[b] # NULL => b \in minted'
               /\ \A q \in Request : Removes(q, b)' => said'[b] # NULL
    BY <1>1, <1>2, <1>3, <1>4, <1>6 DEF FirstWord
  <2> QED
    BY <2>1, <2>2, <2>3 DEF FirstWord
<1>8. event = "removed" => row[a] = NULL
  BY <1>1, <1>2 DEF RemovalsKnow, Inv
<1>9. NextWord'
  <2>1. ASSUME NEW b \in Attachment, b # a
        PROVE  /\ row'[b] # NULL => \/ said'[b] = "added"
                                    \/ \E q \in Request : pc'[q] = "added" /\ op'[q].attachment = b
               /\ task' = Task =>
                     /\ \A q \in Request : pc'[q] = "added" /\ op'[q].attachment = b => row'[b] # NULL
                     /\ said'[b] = "added" =>
                           \/ row'[b] # NULL
                           \/ \E q \in Request : pc'[q] \in {"unlink", "removed"} /\ op'[q].attachment = b
    BY <1>1, <1>2, <1>3, <2>1 DEF NextWord
  <2>2. event = "added" /\ task = Task => row[a] # NULL
    BY <1>1, <1>2 DEF NextWord
  <2>3. \A q \in Request : ~(pc'[q] = "added" /\ op'[q].attachment = a)
    BY <1>3, <1>5 DEF Adds
  <2> QED
    BY <1>1, <1>3, <1>8, <2>1, <2>2, <2>3 DEF NextWord
<1> QED
  BY <1>7, <1>9

LEMMA DeleteWords == ASSUME Inv, Words, NEW r \in Request, Delete(r) PROVE Words'
<1> DEFINE a == op[r].attachment
<1>1. /\ pc[r] = "delete" /\ pc' = [pc EXCEPT ![r] = "unlink"]
      /\ row' = [row EXCEPT ![a] = NULL]
      /\ UNCHANGED <<task, minted, said, op, calm, failures>>
  BY DEF Delete, Goto
<1> SUFFICES ASSUME calm, failures = 0 PROVE FirstWord' /\ NextWord'
  BY <1>1 DEF Words
<1>2. a \in Attachment /\ op[r].do = "remove" /\ FirstWord /\ NextWord
  BY <1>1 DEF Inv, Purposes, Words
<1>3. /\ pc'[r] = "unlink" /\ \A q \in Request : q # r => pc'[q] = pc[q]
      /\ row'[a] = NULL /\ \A b \in Attachment : b # a => row'[b] = row[b]
  BY <1>1, <1>2 DEF Inv, TypeOK
<1>4. /\ \A q \in Request : \A b \in Attachment : Adds(q, b)' <=> Adds(q, b)
      /\ \A q \in Request : \A b \in Attachment : Removes(q, b)' <=> Removes(q, b)
  BY <1>1, <1>3 DEF Adds, Removes
<1>5. FirstWord'
  BY <1>1, <1>2, <1>3, <1>4 DEF FirstWord
<1>6. \A q \in Request : ~(pc[q] = "added" /\ op[q].attachment = a)
  BY <1>1, <1>2 DEF FirstWord, Adds, Removes
<1>7. NextWord'
  BY <1>1, <1>2, <1>3, <1>6 DEF NextWord
<1> QED
  BY <1>5, <1>7

LEMMA UnlinkWords == ASSUME Inv, Words, NEW r \in Request, Unlink(r) PROVE Words'
<1>1. /\ pc[r] = "unlink" /\ pc' = [pc EXCEPT ![r] = "removed"]
      /\ UNCHANGED <<task, row, minted, said, op, calm, failures>>
  BY DEF Unlink, Goto
<1> SUFFICES ASSUME calm, failures = 0 PROVE FirstWord' /\ NextWord'
  BY <1>1 DEF Words
<1>2. FirstWord /\ NextWord
  BY DEF Words
<1>3. pc'[r] = "removed" /\ \A q \in Request : q # r => pc'[q] = pc[q]
  BY <1>1 DEF Inv, TypeOK
<1>4. /\ \A q \in Request : \A b \in Attachment : Adds(q, b)' <=> Adds(q, b)
      /\ \A q \in Request : \A b \in Attachment : Removes(q, b)' <=> Removes(q, b)
  BY <1>1, <1>3 DEF Adds, Removes
<1>5. FirstWord'
  BY <1>1, <1>2, <1>3, <1>4 DEF FirstWord
<1>6. NextWord'
  BY <1>1, <1>2, <1>3 DEF NextWord
<1> QED
  BY <1>5, <1>6

LEMMA DeleteTaskWords == ASSUME Inv, Words, NEW t \in Task, DeleteTask(t) PROVE Words'
<1>1. /\ UNCHANGED <<minted, said, op, pc, calm, failures>> /\ task' # Task
      /\ \A b \in Attachment : row'[b] \in {row[b], NULL}
  BY DEF DeleteTask
<1> SUFFICES ASSUME calm, failures = 0 PROVE FirstWord' /\ NextWord'
  BY <1>1 DEF Words
<1>2. FirstWord /\ NextWord
  BY DEF Words
<1>3. FirstWord'
  BY <1>1, <1>2 DEF FirstWord, Adds, Removes
<1>4. NextWord'
  BY <1>1, <1>2 DEF NextWord
<1> QED
  BY <1>3, <1>4

LEMMA NextWords == ASSUME Inv, Words, [Next]_vars PROVE Words'
<1>1. ASSUME NEW r \in Request, Insert(r) PROVE Words'
  <2>1. CASE op[r].task \in task
    BY <1>1, <2>1, InsertWords
  <2>2. CASE op[r].task \notin task
    BY <1>1, <2>2, RefuseWords DEF Insert
  <2> QED
    BY <2>1, <2>2
<1>2. ASSUME NEW r \in Request, WriteFails(r) \/ UnlinkFails(r) \/ Fail(r) PROVE Words'
  <2>1. failures' # 0
    BY <1>2 DEF WriteFails, UnlinkFails, Fail, Inv, TypeOK
  <2> QED
    BY <2>1 DEF Words
<1>3. CASE UNCHANGED vars
  BY <1>3 DEF vars, Words, FirstWord, NextWord, Adds, Removes
<1> QED
  BY <1>1, <1>2, <1>3, StartWords, AccessWords, WriteWords, AnnounceWords, FindWords,
     DeleteWords, UnlinkWords, DeleteTaskWords DEF Next, Step

-----------------------------------------------------------------------------
\* Every variable of the model keeps its type (the rows of migration 006 and the
\* locals of the handlers in attachment.service.ts).
THEOREM TypeCorrect == Spec => []TypeOK
<1>1. Inv => TypeOK
  BY DEF Inv
<1> QED
  BY InitInv, NextInv, <1>1, PTL DEF Spec

\* The row of an upload has its whole file, for every number of tasks, requests
\* and failures (attachment.service.ts: written before, removed after).
THEOREM RowsHaveTheirFiles == Spec => []RowsHaveFiles
<1>1. Inv => RowsHaveFiles
  BY DEF Inv
<1> QED
  BY InitInv, NextInv, <1>1, PTL DEF Spec

\* As long as nothing fails, only the deletion of its task leaves a file behind
\* that no request is going to give a row or to remove.
THEOREM NoFileIsForgotten == Spec => []NoOrphanFiles
<1>1. Init => NoOrphanFiles
  BY DEF Init, NoOrphanFiles
<1> QED
  BY InitInv, NextInv, NextOrphans, <1>1, PTL DEF Spec

\* As long as nothing fails and clients wait for the announcement, the last event
\* about an attachment tells whether it exists, however many requests overlap
\* (attachment.service.ts lines 98 and 176).
THEOREM LastWordIsTrue == Spec => []CalmLastWord
<1>1. Init => Words
  BY NullAssumption DEF Init, Words, FirstWord, NextWord, Adds, Removes
<1>2. Words => CalmLastWord
  <2> SUFFICES ASSUME Words, calm, failures = 0, NEW a \in Attachment, Handling(a) = {}
               PROVE  /\ row[a] # NULL => said[a] = "added"
                      /\ said[a] = "added" /\ task = Task => row[a] # NULL
    BY DEF CalmLastWord
  <2>1. \A r \in Request : pc[r] # "idle" => op[r].attachment # a
    BY DEF Handling
  <2> QED
    BY <2>1 DEF Words, NextWord
<1> QED
  BY InitInv, NextInv, NextWords, <1>1, <1>2, PTL DEF Spec
=============================================================================
