--------------------------- MODULE RetentionProofs ---------------------------
(* Proofs about Retention, for any objects, configurations and downtimes and   *)
(* any number of steps.                                                        *)
EXTENDS Retention, TLAPS

\* Ids in use are below the next one.
IdsBelow(m) ==
    /\ \A c \in m.comments : c.id < m.next_comment_id
    /\ \A o \in Objects : m.status[o].flapping_comment_id # 0 =>
           m.status[o].flapping_comment_id < m.next_comment_id
    /\ \A d \in m.downtimes : d.comment_id # 0 => d.comment_id < m.next_comment_id

Good(m) ==
    /\ m \in Memories
    /\ IdsAgree(m) /\ OwnersAgree(m) /\ AcknowledgementsAgree(m) /\ IdsBelow(m)

\* What is not as configured is marked as modified.
Marked(s, conf, o) ==
    /\ s.flap_detection_enabled # conf.flap_detection[o] => "flap_detection" \in s.modified
    /\ s.check_period # conf.check_period[o] => "check_period" \in s.modified

MarksAgree(m, conf) == \A o \in Objects : Marked(m.status[o], conf, o)

\* Two states of an object that differ in flapping at most.
SameLasting(s, t) ==
    /\ s.problem = t.problem /\ s.acknowledged = t.acknowledged
    /\ s.acknowledgement_type = t.acknowledgement_type
    /\ s.flap_detection_enabled = t.flap_detection_enabled
    /\ s.check_period = t.check_period /\ s.check_period_ptr = t.check_period_ptr
    /\ s.modified = t.modified

\* What flap detection does to a memory: flags, and comments of its own.
Flapped(m, k) ==
    /\ Good(k)
    /\ k.present = m.present /\ k.downtimes = m.downtimes
    /\ m.next_comment_id <= k.next_comment_id
    /\ \A o \in Objects : SameLasting(k.status[o], m.status[o])
    /\ \A c \in k.comments : \/ c \in m.comments
                             \/ c.entry = "flapping" /\ m.next_comment_id <= c.id
    /\ \A o \in Objects : \/ k.status[o].flapping_comment_id = 0
                          \/ k.status[o].flapping_comment_id = m.status[o].flapping_comment_id
                          \/ m.next_comment_id <= k.status[o].flapping_comment_id

Valid(m, conf) == Good(m) /\ MarksAgree(m, conf) /\ m.present = conf.present

-----------------------------------------------------------------------------
\* What the operators on memory do.

\* A memory is made of its five parts.
LEMMA MemoryFields ==
    ASSUME NEW m \in Memories
    PROVE  /\ m.present \in SUBSET Objects
           /\ m.status \in [Objects -> Status]
           /\ m.comments \in SUBSET Comments
           /\ m.downtimes \in SUBSET Scheduled
           /\ m.next_comment_id \in Nat
BY DEF Memories

\* WithStatus replaces one object and nothing else.
LEMMA WithStatusReplaces ==
    ASSUME NEW m \in Memories, NEW o \in Objects, NEW s \in Status
    PROVE  /\ WithStatus(m, o, s) \in Memories
           /\ WithStatus(m, o, s).present = m.present
           /\ WithStatus(m, o, s).comments = m.comments
           /\ WithStatus(m, o, s).downtimes = m.downtimes
           /\ WithStatus(m, o, s).next_comment_id = m.next_comment_id
           /\ WithStatus(m, o, s).status = [m.status EXCEPT ![o] = s]
BY DEF Memories, WithStatus

\* AddComment adds one comment under the next id.
LEMMA AddCommentAdds ==
    ASSUME NEW m \in Memories, NEW o \in Objects, NEW entry \in Entries,
           NEW persistent \in BOOLEAN
    PROVE  /\ AddComment(m, o, entry, persistent) \in Memories
           /\ AddComment(m, o, entry, persistent).present = m.present
           /\ AddComment(m, o, entry, persistent).status = m.status
           /\ AddComment(m, o, entry, persistent).downtimes = m.downtimes
           /\ AddComment(m, o, entry, persistent).next_comment_id = m.next_comment_id + 1
           /\ AddComment(m, o, entry, persistent).comments =
                m.comments \cup {[id |-> m.next_comment_id, object |-> o,
                                  entry |-> entry, persistent |-> persistent]}
<1> DEFINE n == [id |-> m.next_comment_id, object |-> o, entry |-> entry,
                 persistent |-> persistent]
<1>1. m.next_comment_id \in Nat /\ m.comments \subseteq Comments
  BY DEF Memories
<1>2. n \in Comments
  BY <1>1 DEF Comments
<1>3. m.comments \cup {n} \subseteq Comments
  BY <1>1, <1>2
<1> HIDE DEF n
<1>4. AddComment(m, o, entry, persistent) =
          [m EXCEPT !.comments = m.comments \cup {n}, !.next_comment_id = m.next_comment_id + 1]
  BY DEF AddComment, n
<1>5. AddComment(m, o, entry, persistent) =
          [present |-> m.present, status |-> m.status, comments |-> m.comments \cup {n},
           downtimes |-> m.downtimes, next_comment_id |-> m.next_comment_id + 1]
  BY <1>4 DEF Memories
<1> QED
  BY <1>1, <1>3, <1>5 DEF Memories, n

\* A memory with fewer comments and the rest as it was.
LEMMA FewerComments ==
    ASSUME NEW m \in Memories, NEW C \in SUBSET m.comments
    PROVE  /\ [m EXCEPT !.comments = C] \in Memories
           /\ [m EXCEPT !.comments = C].present = m.present
           /\ [m EXCEPT !.comments = C].status = m.status
           /\ [m EXCEPT !.comments = C].downtimes = m.downtimes
           /\ [m EXCEPT !.comments = C].next_comment_id = m.next_comment_id
           /\ [m EXCEPT !.comments = C].comments = C
BY DEF Memories

\* Deleting a comment by its id is such a change.
LEMMA DeleteCommentDeletes ==
    ASSUME NEW m \in Memories, NEW id
    PROVE  /\ DeleteComment(m, id) \in Memories
           /\ DeleteComment(m, id).present = m.present
           /\ DeleteComment(m, id).status = m.status
           /\ DeleteComment(m, id).downtimes = m.downtimes
           /\ DeleteComment(m, id).next_comment_id = m.next_comment_id
           /\ DeleteComment(m, id).comments = {c \in m.comments : c.id # id}
BY FewerComments, {c \in m.comments : c.id # id} \in SUBSET m.comments DEF DeleteComment

\* So is deleting those of an object.
LEMMA DeleteAllDeletes ==
    ASSUME NEW m \in Memories, NEW o
    PROVE  /\ DeleteAllComments(m, o) \in Memories
           /\ DeleteAllComments(m, o).present = m.present
           /\ DeleteAllComments(m, o).status = m.status
           /\ DeleteAllComments(m, o).downtimes = m.downtimes
           /\ DeleteAllComments(m, o).next_comment_id = m.next_comment_id
           /\ DeleteAllComments(m, o).comments = {c \in m.comments : c.object # o}
BY FewerComments, {c \in m.comments : c.object # o} \in SUBSET m.comments
   DEF DeleteAllComments

\* So is deleting those of an acknowledgement.
LEMMA DeleteAcknowledgementDeletes ==
    ASSUME NEW m \in Memories, NEW o
    PROVE  LET k == DeleteAcknowledgementComments(m, o)
           IN  /\ k \in Memories
               /\ k.present = m.present
               /\ k.status = m.status
               /\ k.downtimes = m.downtimes
               /\ k.next_comment_id = m.next_comment_id
               /\ k.comments = {c \in m.comments :
                    ~(c.object = o /\ c.entry = "acknowledgement" /\ ~c.persistent)}
BY FewerComments, {c \in m.comments :
       ~(c.object = o /\ c.entry = "acknowledgement" /\ ~c.persistent)} \in SUBSET m.comments
   DEF DeleteAcknowledgementComments

-----------------------------------------------------------------------------
\* What keeps a memory good.

\* Fewer comments, fewer downtimes, ids of flapping comments kept or dropped.
LEMMA LessIsGood ==
    ASSUME NEW m, NEW k \in Memories, Good(m),
           k.comments \subseteq m.comments, k.downtimes \subseteq m.downtimes,
           k.next_comment_id = m.next_comment_id,
           \A o \in Objects : k.status[o].flapping_comment_id
                                 \in {0, m.status[o].flapping_comment_id},
           AcknowledgementsAgree(k)
    PROVE  Good(k)
<1>1. IdsAgree(k)
  BY DEF Good, IdsAgree
<1>2. OwnersAgree(k)
  BY DEF Good, OwnersAgree
<1>3. IdsBelow(k)
  BY DEF Good, IdsBelow
<1> QED
  BY <1>1, <1>2, <1>3 DEF Good

\* One more comment, which nothing names yet.
LEMMA OneMoreIsGood ==
    ASSUME NEW m, Good(m), NEW o \in Objects, NEW entry \in Entries,
           NEW persistent \in BOOLEAN,
           entry = "acknowledgement" /\ ~persistent => m.status[o].acknowledged
    PROVE  Good(AddComment(m, o, entry, persistent))
<1> DEFINE n == [id |-> m.next_comment_id, object |-> o, entry |-> entry,
                 persistent |-> persistent]
           k == AddComment(m, o, entry, persistent)
<1>1. m \in Memories /\ m.next_comment_id \in Nat
  BY MemoryFields DEF Good
<1>2. /\ k \in Memories /\ k.status = m.status /\ k.downtimes = m.downtimes
      /\ k.next_comment_id = m.next_comment_id + 1
      /\ k.comments = m.comments \cup {n}
  BY <1>1, AddCommentAdds
<1>3. m.comments \subseteq Comments /\ m.status \in [Objects -> Status]
      /\ m.downtimes \subseteq Scheduled
  BY <1>1, MemoryFields
<1>4. \A c \in m.comments : c.id \in Nat /\ c.id < m.next_comment_id
  BY <1>3 DEF Good, IdsBelow, Comments
<1>5. \A x \in Objects : m.status[x].flapping_comment_id \in Nat
  BY <1>3 DEF Status
<1>6. \A d \in m.downtimes : d.comment_id \in Nat
  BY <1>3 DEF Scheduled
<1>7. n.id = m.next_comment_id /\ n.object = o /\ n.entry = entry /\ n.persistent = persistent
  OBVIOUS
<1> HIDE DEF n, k
<1>8. IdsAgree(k)
  BY <1>1, <1>2, <1>4, <1>7 DEF Good, IdsAgree
<1>9. OwnersAgree(k)
  BY <1>1, <1>2, <1>5, <1>6, <1>7 DEF Good, OwnersAgree, IdsBelow
<1>10. AcknowledgementsAgree(k)
  BY <1>2, <1>7 DEF Good, AcknowledgementsAgree
<1>11. IdsBelow(k)
  BY <1>1, <1>2, <1>4, <1>5, <1>6, <1>7 DEF Good, IdsBelow
<1> QED
  BY <1>2, <1>8, <1>9, <1>10, <1>11 DEF Good, k

\* Another status of an object that keeps the id of the flapping comment, or
\* drops it, and does not end an acknowledgement that has a comment.
LEMMA StatusIsGood ==
    ASSUME NEW m, Good(m), NEW o \in Objects, NEW s \in Status,
           s.flapping_comment_id \in {0, m.status[o].flapping_comment_id},
           s.acknowledged \/ \A c \in m.comments :
               ~(c.object = o /\ c.entry = "acknowledgement" /\ ~c.persistent)
    PROVE  Good(WithStatus(m, o, s))
<1> DEFINE k == WithStatus(m, o, s)
<1>1. m \in Memories /\ m.status \in [Objects -> Status]
  BY MemoryFields DEF Good
<1>2. /\ k \in Memories /\ k.comments = m.comments /\ k.downtimes = m.downtimes
      /\ k.next_comment_id = m.next_comment_id
      /\ k.status = [m.status EXCEPT ![o] = s]
  BY <1>1, WithStatusReplaces
<1> HIDE DEF k
<1>3. k.status[o] = s /\ \A x \in Objects : x # o => k.status[x] = m.status[x]
  BY <1>1, <1>2
<1>4. \A x \in Objects : k.status[x].flapping_comment_id
                             \in {0, m.status[x].flapping_comment_id}
  BY <1>3
<1>5. m.comments \subseteq Comments
  BY <1>1, MemoryFields
<1>6. AcknowledgementsAgree(k)
  <2> SUFFICES ASSUME NEW c \in m.comments, c.entry = "acknowledgement", ~c.persistent
               PROVE  k.status[c.object].acknowledged
    BY <1>2 DEF AcknowledgementsAgree
  <2>1. c.object \in Objects /\ m.status[c.object].acknowledged
    BY <1>5 DEF Good, AcknowledgementsAgree, Comments
  <2> QED
    BY <2>1, <1>3
<1>7. Good(k)
  BY <1>2, <1>4, <1>6, LessIsGood
<1> QED
  BY <1>7 DEF k

-----------------------------------------------------------------------------
\* Flapping.

\* Flapping starts: a comment for an object that has none.
LEMMA SetFlapFlaps ==
    ASSUME NEW m, Good(m), NEW o \in Objects
    PROVE  Flapped(m, SetFlap(m, o))
<1> DEFINE k == SetFlap(m, o)
           t == m.status[o]
<1>1. /\ m \in Memories /\ m.status \in [Objects -> Status] /\ m.next_comment_id \in Nat
      /\ m.comments \subseteq Comments /\ m.downtimes \subseteq Scheduled
  BY MemoryFields DEF Good
<1>2. t \in Status
  BY <1>1
<1>3. CASE t.flapping_comment_id # 0
  <2> DEFINE s == [t EXCEPT !.is_flapping = TRUE]
  <2>1. s \in Status /\ s.flapping_comment_id = t.flapping_comment_id /\ SameLasting(s, t)
        /\ s.acknowledged = t.acknowledged
    BY <1>2 DEF Status, SameLasting
  <2>2. k = WithStatus(m, o, s)
    BY <1>3 DEF SetFlap
  <2> HIDE DEF s
  <2>3. s.acknowledged \/ \A c \in m.comments :
               ~(c.object = o /\ c.entry = "acknowledgement" /\ ~c.persistent)
    BY <2>1 DEF Good, AcknowledgementsAgree
  <2>4. Good(k)
    BY <2>1, <2>2, <2>3, StatusIsGood
  <2>5. /\ k.present = m.present /\ k.downtimes = m.downtimes /\ k.comments = m.comments
        /\ k.next_comment_id = m.next_comment_id /\ k.status = [m.status EXCEPT ![o] = s]
    BY <1>1, <2>1, <2>2, WithStatusReplaces
  <2>6. \A x \in Objects : SameLasting(k.status[x], m.status[x])
            /\ k.status[x].flapping_comment_id = m.status[x].flapping_comment_id
    BY <1>1, <2>1, <2>5 DEF SameLasting
  <2> QED
    BY <1>1, <2>4, <2>5, <2>6 DEF Flapped
<1>4. CASE t.flapping_comment_id = 0
  <2> DEFINE n == [id |-> m.next_comment_id, object |-> o, entry |-> "flapping",
                   persistent |-> FALSE]
             a == AddComment(m, o, "flapping", FALSE)
             s == [t EXCEPT !.is_flapping = TRUE, !.flapping_comment_id = m.next_comment_id]
  <2>1. s \in Status /\ s.flapping_comment_id = m.next_comment_id /\ SameLasting(s, t)
    BY <1>1, <1>2 DEF Status, SameLasting
  <2>2. k = WithStatus(a, o, s)
    BY <1>4 DEF SetFlap
  <2>3. Good(a)
    BY OneMoreIsGood DEF Entries
  <2>4. /\ a.present = m.present /\ a.downtimes = m.downtimes /\ a.comments = m.comments \cup {n}
        /\ a.next_comment_id = m.next_comment_id + 1 /\ a.status = m.status
    BY <1>1, AddCommentAdds DEF Entries
  <2>5. n.id = m.next_comment_id /\ n.object = o /\ n.entry = "flapping"
    OBVIOUS
  <2> HIDE DEF s, a, n
  <2>6. /\ k \in Memories
        /\ k.present = m.present /\ k.downtimes = m.downtimes /\ k.comments = m.comments \cup {n}
        /\ k.next_comment_id = m.next_comment_id + 1 /\ k.status = [m.status EXCEPT ![o] = s]
    BY <2>1, <2>2, <2>3, <2>4, WithStatusReplaces DEF Good
  <2>7. /\ k.status[o] = s
        /\ \A x \in Objects : x # o => k.status[x] = m.status[x]
    BY <1>1, <2>6
  <2>8. \A x \in Objects : SameLasting(k.status[x], m.status[x])
    BY <2>1, <2>7 DEF SameLasting
  <2> HIDE DEF k, t
  <2>9. IdsAgree(k)
    BY <2>3, <2>4, <2>6 DEF Good, IdsAgree
  <2>10. AcknowledgementsAgree(k)
    <3>1. \A c \in k.comments : c.object \in Objects
      BY <2>3, <2>4, <2>6, MemoryFields DEF Good, Comments
    <3> QED
      BY <2>3, <2>4, <2>6, <2>8, <3>1 DEF Good, AcknowledgementsAgree, SameLasting
  <2>11. IdsBelow(k)
    <3>1. \A c \in k.comments : c.id < k.next_comment_id
      BY <2>3, <2>4, <2>6 DEF Good, IdsBelow
    <3>2. \A d \in k.downtimes : d.comment_id # 0 => d.comment_id < k.next_comment_id
      BY <2>3, <2>4, <2>6 DEF Good, IdsBelow
    <3>3. \A x \in Objects : k.status[x].flapping_comment_id # 0 =>
               k.status[x].flapping_comment_id < k.next_comment_id
      BY <1>1, <2>1, <2>3, <2>4, <2>6, <2>7 DEF Good, IdsBelow
    <3> QED
      BY <3>1, <3>2, <3>3 DEF IdsBelow
  <2>12. OwnersAgree(k)
    <3>1. \A d \in k.downtimes : d.comment_id # 0 =>
             \A c \in k.comments : c.id = d.comment_id => c.object = d.object /\ c.entry = "downtime"
      BY <2>3, <2>4, <2>6 DEF Good, OwnersAgree
    <3>2. ASSUME NEW x \in Objects, k.status[x].flapping_comment_id # 0,
                 NEW c \in k.comments, c.id = k.status[x].flapping_comment_id
          PROVE  c.object = x /\ c.entry = "flapping"
      <4>1. CASE x # o
        BY <2>3, <2>4, <2>6, <2>7, <3>2, <4>1 DEF Good, OwnersAgree
      <4>2. CASE x = o
        <5>1. c.id = m.next_comment_id
          BY <2>1, <2>7, <3>2, <4>2
        <5>2. \A e \in m.comments : e.id < m.next_comment_id /\ e.id \in Nat
          BY <1>1 DEF Good, IdsBelow, Comments
        <5>3. c = n
          BY <1>1, <2>6, <3>2, <5>1, <5>2
        <5> QED
          BY <2>5, <4>2, <5>3
      <4> QED
        BY <4>1, <4>2
    <3> QED
      BY <3>1, <3>2 DEF OwnersAgree
  <2>13. Good(k)
    BY <2>6, <2>9, <2>10, <2>11, <2>12 DEF Good
  <2>14. \A c \in k.comments : \/ c \in m.comments
                               \/ c.entry = "flapping" /\ m.next_comment_id <= c.id
    BY <1>1, <2>5, <2>6
  <2>15. \A x \in Objects :
            \/ k.status[x].flapping_comment_id = 0
            \/ k.status[x].flapping_comment_id = m.status[x].flapping_comment_id
            \/ m.next_comment_id <= k.status[x].flapping_comment_id
    <3>1. m.next_comment_id <= k.status[o].flapping_comment_id
      BY <1>1, <2>1, <2>7
    <3> QED
      BY <2>7, <3>1
  <2>16. m.next_comment_id <= k.next_comment_id
    BY <1>1, <2>6
  <2> QED
    BY <2>6, <2>8, <2>13, <2>14, <2>15, <2>16 DEF Flapped, k
<1> QED
  BY <1>3, <1>4

\* Flapping stops: the comment is deleted.
LEMMA ClearFlapFlaps ==
    ASSUME NEW m, Good(m), NEW o \in Objects
    PROVE  Flapped(m, ClearFlap(m, o))
<1> DEFINE k == ClearFlap(m, o)
           t == m.status[o]
           a == DeleteComment(m, t.flapping_comment_id)
           s == [t EXCEPT !.is_flapping = FALSE, !.flapping_comment_id = 0]
<1>1. /\ m \in Memories /\ m.status \in [Objects -> Status] /\ m.next_comment_id \in Nat
      /\ m.comments \subseteq Comments /\ t \in Status
  BY MemoryFields DEF Good
<1>2. s \in Status /\ s.flapping_comment_id = 0 /\ SameLasting(s, t)
  BY <1>1 DEF Status, SameLasting
<1>3. /\ a \in Memories /\ a.present = m.present /\ a.status = m.status
      /\ a.downtimes = m.downtimes /\ a.next_comment_id = m.next_comment_id
      /\ a.comments \subseteq m.comments
  BY <1>1, DeleteCommentDeletes
<1>4. k = WithStatus(a, o, s)
  BY DEF ClearFlap
<1> HIDE DEF s, a
<1>5. /\ k \in Memories /\ k.present = m.present /\ k.downtimes = m.downtimes
      /\ k.next_comment_id = m.next_comment_id /\ k.comments \subseteq m.comments
      /\ k.status = [m.status EXCEPT ![o] = s]
  BY <1>2, <1>3, <1>4, WithStatusReplaces
<1>6. /\ k.status[o] = s
      /\ \A x \in Objects : x # o => k.status[x] = m.status[x]
  BY <1>1, <1>5
<1>7. \A x \in Objects : SameLasting(k.status[x], m.status[x])
  BY <1>2, <1>6 DEF SameLasting
<1>8. \A x \in Objects : k.status[x].flapping_comment_id
                             \in {0, m.status[x].flapping_comment_id}
  BY <1>2, <1>6
<1>9. \A c \in k.comments : c \in m.comments /\ c.object \in Objects
  BY <1>1, <1>5 DEF Comments
<1> HIDE DEF k, t
<1>10. AcknowledgementsAgree(k)
  BY <1>7, <1>9 DEF Good, AcknowledgementsAgree, SameLasting
<1>11. Good(k)
  BY <1>5, <1>8, <1>10, LessIsGood
<1>12. m.next_comment_id <= k.next_comment_id
  BY <1>1, <1>5
<1>13. \A c \in k.comments : c \in m.comments
  BY <1>5
<1> QED
  BY <1>5, <1>7, <1>8, <1>11, <1>12, <1>13 DEF Flapped, k

\* A memory that stays is one of these changes.
LEMMA SameIsFlapped ==
    ASSUME NEW m, Good(m) PROVE Flapped(m, m)
<1>1. m.next_comment_id \in Nat
  BY MemoryFields DEF Good
<1>2. m.next_comment_id <= m.next_comment_id
  BY <1>1
<1>3. \A o \in Objects : SameLasting(m.status[o], m.status[o])
  BY DEF SameLasting
<1> QED
  BY <1>2, <1>3 DEF Flapped

\* So flap detection starts flapping, stops it, or does nothing.
LEMMA CheckForFlappingFlaps ==
    ASSUME NEW m, Good(m), NEW o \in Objects, NEW p
    PROVE  Flapped(m, CheckForFlapping(m, o, p))
<1>1. CheckForFlapping(m, o, p) \in {m, SetFlap(m, o), ClearFlap(m, o)}
  <2> DEFINE s == m.status[o]
  <2>1. s.flap_detection_enabled \in BOOLEAN /\ s.is_flapping \in BOOLEAN
    BY MemoryFields DEF Good, Status
  <2> QED
    BY <2>1 DEF CheckForFlapping
<1> QED
  BY <1>1, SetFlapFlaps, ClearFlapFlaps, SameIsFlapped

\* Marks and what is configured are no matter of flapping.
LEMMA FlappedIsValid ==
    ASSUME NEW m, NEW k, NEW conf, Valid(m, conf), Flapped(m, k)
    PROVE  Valid(k, conf)
BY DEF Valid, Flapped, MarksAgree, Marked, SameLasting
-----------------------------------------------------------------------------
\* Steps of a running daemon.

\* One more comment.
LEMMA OneMoreIsValid ==
    ASSUME NEW m, NEW conf, Valid(m, conf), NEW o \in Objects, NEW entry \in Entries,
           NEW persistent \in BOOLEAN,
           entry = "acknowledgement" /\ ~persistent => m.status[o].acknowledged
    PROVE  Valid(AddComment(m, o, entry, persistent), conf)
<1>1. m \in Memories
  BY DEF Valid, Good
<1>2. Good(AddComment(m, o, entry, persistent))
  BY OneMoreIsGood DEF Valid
<1> QED
  BY <1>1, <1>2, AddCommentAdds DEF Valid, MarksAgree

\* Fewer comments and downtimes, the same objects.
LEMMA LessIsValid ==
    ASSUME NEW m, NEW conf, Valid(m, conf), NEW k \in Memories,
           k.present = m.present, k.status = m.status,
           k.comments \subseteq m.comments, k.downtimes \subseteq m.downtimes,
           k.next_comment_id = m.next_comment_id
    PROVE  Valid(k, conf)
<1>1. AcknowledgementsAgree(k)
  BY DEF Valid, Good, AcknowledgementsAgree
<1>2. Good(k)
  BY <1>1, LessIsGood DEF Valid
<1> QED
  BY <1>2 DEF Valid, MarksAgree

\* Another status of one object.
LEMMA StatusIsValid ==
    ASSUME NEW m, NEW conf, Valid(m, conf), NEW o \in Objects, NEW s \in Status,
           s.flapping_comment_id = m.status[o].flapping_comment_id,
           s.acknowledged \/ \A c \in m.comments :
               ~(c.object = o /\ c.entry = "acknowledgement" /\ ~c.persistent),
           Marked(s, conf, o)
    PROVE  Valid(WithStatus(m, o, s), conf)
<1>1. m \in Memories /\ m.status \in [Objects -> Status]
  BY MemoryFields DEF Valid, Good
<1>2. Good(WithStatus(m, o, s))
  BY StatusIsGood DEF Valid
<1>3. /\ WithStatus(m, o, s).present = m.present
      /\ WithStatus(m, o, s).status = [m.status EXCEPT ![o] = s]
  BY <1>1, WithStatusReplaces
<1>4. MarksAgree(WithStatus(m, o, s), conf)
  BY <1>1, <1>3 DEF Valid, MarksAgree
<1> QED
  BY <1>2, <1>3, <1>4 DEF Valid

\* An object that has no acknowledgement has no comments that go with one.
LEMMA AcknowledgedOrBare ==
    ASSUME NEW m, Good(m), NEW o \in Objects
    PROVE  m.status[o].acknowledged \/ \A c \in m.comments :
               ~(c.object = o /\ c.entry = "acknowledgement" /\ ~c.persistent)
BY DEF Good, AcknowledgementsAgree

\* Flap detection on a valid memory.
LEMMA CheckForFlappingIsValid ==
    ASSUME NEW m, NEW conf, Valid(m, conf), NEW o \in Objects, NEW p
    PROVE  Valid(CheckForFlapping(m, o, p), conf)
BY CheckForFlappingFlaps, FlappedIsValid DEF Valid

\* So on clearing the flapping state.
LEMMA ClearFlapIsValid ==
    ASSUME NEW m, NEW conf, Valid(m, conf), NEW o \in Objects
    PROVE  Valid(ClearFlap(m, o), conf)
BY ClearFlapFlaps, FlappedIsValid DEF Valid

\* A result.
LEMMA HandleResultIsValid ==
    ASSUME Valid(memory, config), NEW o \in Objects, HandleResult(o), RetentionConstants
    PROVE  Valid(memory', config)
<1> DEFINE t == memory.status[o]
           a == DeleteAcknowledgementComments(memory, o)
<1>1. memory \in Memories /\ t \in Status /\ HostOf[o] \in Objects /\ Marked(t, config, o)
  BY MemoryFields DEF Valid, Good, RetentionConstants, MarksAgree
<1>2. PICK problem \in BOOLEAN, state_change \in BOOLEAN, p \in Percentages, q \in Percentages :
        LET s == memory.status[o]
            ends == state_change /\ \/ s.acknowledgement_type = "normal"
                                    \/ s.acknowledgement_type = "sticky" /\ ~problem
            checked == IF ends
                       THEN WithStatus(DeleteAcknowledgementComments(memory, o), o,
                                [s EXCEPT !.problem = problem, !.acknowledged = FALSE,
                                          !.acknowledgement_type = "none"])
                       ELSE WithStatus(memory, o, [s EXCEPT !.problem = problem])
        IN  Running(CheckForFlapping(CheckForFlapping(checked, o, p), HostOf[o], q))
  BY DEF HandleResult
<1> DEFINE ended == [t EXCEPT !.problem = problem, !.acknowledged = FALSE,
                              !.acknowledgement_type = "none"]
           same == [t EXCEPT !.problem = problem]
<1>3. PICK checked \in {WithStatus(a, o, ended), WithStatus(memory, o, same)} :
        memory' = CheckForFlapping(CheckForFlapping(checked, o, p), HostOf[o], q)
  BY <1>2 DEF Running
<1>4. /\ a \in Memories /\ a.present = memory.present /\ a.status = memory.status
      /\ a.downtimes = memory.downtimes /\ a.next_comment_id = memory.next_comment_id
      /\ a.comments = {c \in memory.comments :
            ~(c.object = o /\ c.entry = "acknowledgement" /\ ~c.persistent)}
  BY <1>1, DeleteAcknowledgementDeletes
<1>5. Valid(a, config)
  BY <1>4, LessIsValid
<1>6. /\ ended \in Status /\ ended.flapping_comment_id = t.flapping_comment_id
      /\ ended.flap_detection_enabled = t.flap_detection_enabled
      /\ ended.check_period = t.check_period /\ ended.modified = t.modified
  BY <1>1 DEF Status
<1>7. /\ same \in Status /\ same.flapping_comment_id = t.flapping_comment_id
      /\ same.acknowledged = t.acknowledged
      /\ same.flap_detection_enabled = t.flap_detection_enabled
      /\ same.check_period = t.check_period /\ same.modified = t.modified
  BY <1>1 DEF Status
<1>8. Marked(ended, config, o) /\ Marked(same, config, o)
  BY <1>1, <1>6, <1>7 DEF Marked
<1>9. Good(memory)
  BY DEF Valid
<1> HIDE DEF ended, same, a
<1>10. Valid(WithStatus(a, o, ended), config)
  BY <1>4, <1>5, <1>6, <1>8, StatusIsValid
<1>11. Valid(WithStatus(memory, o, same), config)
  BY <1>7, <1>8, <1>9, AcknowledgedOrBare, StatusIsValid
<1>12. Valid(checked, config)
  BY <1>3, <1>10, <1>11
<1>13. Valid(CheckForFlapping(checked, o, p), config)
  BY <1>12, CheckForFlappingIsValid
<1>14. Valid(CheckForFlapping(CheckForFlapping(checked, o, p), HostOf[o], q), config)
  BY <1>1, <1>13, CheckForFlappingIsValid
<1> QED
  BY <1>3, <1>14

\* An acknowledgement is made: its comment comes first, with its flag.
LEMMA AcknowledgeIsValid ==
    ASSUME Valid(memory, config), NEW o \in Objects, AcknowledgeProblem(o)
    PROVE  Valid(memory', config)
<1> DEFINE t == memory.status[o]
<1>1. memory \in Memories /\ t \in Status /\ Marked(t, config, o) /\ Good(memory)
  BY MemoryFields DEF Valid, Good, MarksAgree
<1>2. PICK type \in {"normal", "sticky"}, persistent \in BOOLEAN :
        Running(WithStatus(AddComment(memory, o, "acknowledgement", persistent), o,
            [memory.status[o] EXCEPT !.acknowledged = TRUE, !.acknowledgement_type = type]))
  BY DEF AcknowledgeProblem
<1> DEFINE s == [t EXCEPT !.acknowledged = TRUE, !.acknowledgement_type = type]
           acknowledged == WithStatus(memory, o, s)
           commented == AddComment(acknowledged, o, "acknowledgement", persistent)
           n == [id |-> memory.next_comment_id, object |-> o, entry |-> "acknowledgement",
                 persistent |-> persistent]
           a == AddComment(memory, o, "acknowledgement", persistent)
<1>3. memory' = WithStatus(a, o, s)
  BY <1>2 DEF Running
<1>4. /\ s \in Status /\ s.flapping_comment_id = t.flapping_comment_id /\ s.acknowledged
      /\ s.flap_detection_enabled = t.flap_detection_enabled
      /\ s.check_period = t.check_period /\ s.modified = t.modified
  BY <1>1 DEF Status
<1> HIDE DEF s
<1>5. Marked(s, config, o)
  BY <1>1, <1>4 DEF Marked
<1>6. Valid(acknowledged, config)
  BY <1>4, <1>5, StatusIsValid
<1>7. /\ acknowledged \in Memories
      /\ acknowledged.status = [memory.status EXCEPT ![o] = s]
      /\ acknowledged.present = memory.present /\ acknowledged.comments = memory.comments
      /\ acknowledged.downtimes = memory.downtimes
      /\ acknowledged.next_comment_id = memory.next_comment_id
  BY <1>1, <1>4, WithStatusReplaces
<1>8. acknowledged.status[o].acknowledged
  BY <1>1, <1>4, <1>7, MemoryFields
<1>9. Valid(commented, config)
  BY <1>6, <1>8, OneMoreIsValid DEF Entries
<1>10. /\ a \in Memories /\ a.status = memory.status /\ a.present = memory.present
       /\ a.comments = memory.comments \cup {n} /\ a.downtimes = memory.downtimes
       /\ a.next_comment_id = memory.next_comment_id + 1
  BY <1>1, AddCommentAdds DEF Entries
<1> HIDE DEF a
<1>11. WithStatus(a, o, s) = commented
  <2>1. WithStatus(a, o, s) = [present |-> memory.present,
            status |-> [memory.status EXCEPT ![o] = s], comments |-> memory.comments \cup {n},
            downtimes |-> memory.downtimes, next_comment_id |-> memory.next_comment_id + 1]
    <3>1. WithStatus(a, o, s) \in Memories
      BY <1>4, <1>10, WithStatusReplaces
    <3> DEFINE w == WithStatus(a, o, s)
    <3>2. /\ w.present = memory.present /\ w.status = [memory.status EXCEPT ![o] = s]
          /\ w.comments = memory.comments \cup {n} /\ w.downtimes = memory.downtimes
          /\ w.next_comment_id = memory.next_comment_id + 1
      BY <1>4, <1>10, WithStatusReplaces
    <3> HIDE DEF w
    <3> QED
      BY <3>1, <3>2 DEF Memories, w
  <2>2. commented = [present |-> memory.present,
            status |-> [memory.status EXCEPT ![o] = s], comments |-> memory.comments \cup {n},
            downtimes |-> memory.downtimes, next_comment_id |-> memory.next_comment_id + 1]
    <3> HIDE DEF acknowledged
    <3>1. /\ commented \in Memories
          /\ commented.present = memory.present
          /\ commented.status = [memory.status EXCEPT ![o] = s]
          /\ commented.comments = memory.comments \cup {n}
          /\ commented.downtimes = memory.downtimes
          /\ commented.next_comment_id = memory.next_comment_id + 1
      BY <1>7, AddCommentAdds DEF Entries
    <3> HIDE DEF commented
    <3> QED
      BY <3>1 DEF Memories
  <2> QED
    BY <2>1, <2>2
<1> QED
  BY <1>3, <1>9, <1>11

\* An acknowledgement is removed, and its comments.
LEMMA RemoveIsValid ==
    ASSUME Valid(memory, config), NEW o \in Objects, RemoveAcknowledgement(o)
    PROVE  Valid(memory', config)
<1> DEFINE t == memory.status[o]
           a == DeleteAcknowledgementComments(memory, o)
           s == [t EXCEPT !.acknowledged = FALSE]
<1>1. memory \in Memories /\ t \in Status /\ Marked(t, config, o)
  BY MemoryFields DEF Valid, Good, MarksAgree
<1>2. memory' = WithStatus(a, o, s)
  BY DEF RemoveAcknowledgement, Running
<1>3. /\ s \in Status /\ s.flapping_comment_id = t.flapping_comment_id
      /\ s.flap_detection_enabled = t.flap_detection_enabled
      /\ s.check_period = t.check_period /\ s.modified = t.modified
  BY <1>1 DEF Status
<1>4. /\ a \in Memories /\ a.present = memory.present /\ a.status = memory.status
      /\ a.downtimes = memory.downtimes /\ a.next_comment_id = memory.next_comment_id
      /\ a.comments = {c \in memory.comments :
            ~(c.object = o /\ c.entry = "acknowledgement" /\ ~c.persistent)}
  BY <1>1, DeleteAcknowledgementDeletes
<1> HIDE DEF a, s
<1>5. Valid(a, config)
  BY <1>4, LessIsValid
<1>6. Marked(s, config, o)
  BY <1>1, <1>3 DEF Marked
<1> QED
  BY <1>2, <1>3, <1>4, <1>5, <1>6, StatusIsValid

\* A status that keeps its acknowledgement and the id of its flapping comment.
LEMMA ChangedIsValid ==
    ASSUME NEW m, NEW conf, Valid(m, conf), NEW o \in Objects, NEW s \in Status,
           s.flapping_comment_id = m.status[o].flapping_comment_id,
           s.acknowledged = m.status[o].acknowledged, Marked(s, conf, o)
    PROVE  Valid(WithStatus(m, o, s), conf)
BY StatusIsValid, AcknowledgedOrBare DEF Valid

\* Flap detection is enabled or disabled, and the mark set.
LEMMA DetectionIsValid ==
    ASSUME Valid(memory, config), NEW o \in Objects,
           EnableFlapDetection(o) \/ DisableFlapDetection(o)
    PROVE  Valid(memory', config)
<1> DEFINE t == memory.status[o]
           on == [t EXCEPT !.flap_detection_enabled = TRUE, !.modified = @ \cup {"flap_detection"}]
           off == [t EXCEPT !.flap_detection_enabled = FALSE, !.modified = @ \cup {"flap_detection"}]
<1>1. memory \in Memories /\ t \in Status /\ Marked(t, config, o)
  BY MemoryFields DEF Valid, Good, MarksAgree
<1>2. /\ on \in Status /\ on.flapping_comment_id = t.flapping_comment_id
      /\ on.acknowledged = t.acknowledged /\ on.check_period = t.check_period
      /\ on.modified = t.modified \cup {"flap_detection"}
  BY <1>1 DEF Status, Marks
<1>3. /\ off \in Status /\ off.flapping_comment_id = t.flapping_comment_id
      /\ off.acknowledged = t.acknowledged /\ off.check_period = t.check_period
      /\ off.modified = t.modified \cup {"flap_detection"}
  BY <1>1 DEF Status, Marks
<1>4. CASE EnableFlapDetection(o)
  <2>1. PICK p \in Percentages : memory' = CheckForFlapping(WithStatus(memory, o, on), o, p)
    BY <1>4 DEF EnableFlapDetection, Running
  <2> HIDE DEF on, off
  <2>2. Marked(on, config, o)
    BY <1>1, <1>2 DEF Marked
  <2>3. Valid(WithStatus(memory, o, on), config)
    BY <1>2, <2>2, ChangedIsValid
  <2> QED
    BY <2>1, <2>3, CheckForFlappingIsValid
<1>5. CASE DisableFlapDetection(o)
  <2>1. \/ memory' = ClearFlap(WithStatus(memory, o, off), o)
        \/ memory' = WithStatus(memory, o, off)
    BY <1>5 DEF DisableFlapDetection, Running
  <2> HIDE DEF on, off
  <2>2. Marked(off, config, o)
    BY <1>1, <1>3 DEF Marked
  <2>3. Valid(WithStatus(memory, o, off), config)
    BY <1>3, <2>2, ChangedIsValid
  <2> QED
    BY <2>1, <2>3, ClearFlapIsValid
<1> QED
  BY <1>4, <1>5

\* Another check period, and its mark.
LEMMA PeriodIsValid ==
    ASSUME Valid(memory, config), NEW o \in Objects, ChangeCheckPeriod(o),
           config.periods \subseteq Periods
    PROVE  Valid(memory', config)
<1> DEFINE t == memory.status[o]
<1>1. memory \in Memories /\ t \in Status /\ Marked(t, config, o)
  BY MemoryFields DEF Valid, Good, MarksAgree
<1>2. PICK period \in config.periods :
        memory' = WithStatus(memory, o,
            [t EXCEPT !.check_period = period, !.check_period_ptr = period,
                      !.modified = @ \cup {"check_period"}])
  BY DEF ChangeCheckPeriod, Running
<1> DEFINE s == [t EXCEPT !.check_period = period, !.check_period_ptr = period,
                          !.modified = @ \cup {"check_period"}]
<1>3. /\ s \in Status /\ s.flapping_comment_id = t.flapping_comment_id
      /\ s.acknowledged = t.acknowledged
      /\ s.flap_detection_enabled = t.flap_detection_enabled
      /\ s.modified = t.modified \cup {"check_period"}
  BY <1>1 DEF Status, Marks
<1> HIDE DEF s
<1>4. Marked(s, config, o)
  BY <1>1, <1>3 DEF Marked
<1>5. Valid(WithStatus(memory, o, s), config)
  BY <1>3, <1>4, ChangedIsValid
<1> QED
  BY <1>2, <1>5 DEF s

\* What registering a downtime does to a memory.
LEMMA RegisterIsGood ==
    ASSUME NEW m, Good(m), NEW id \in Downtimes, NEW o \in Objects
    PROVE  LET k == RegisterDowntime(m, id, o)
           IN  /\ Good(k)
               /\ k.present = m.present /\ k.status = m.status
               /\ m.next_comment_id <= k.next_comment_id
               /\ m.comments \subseteq k.comments
               /\ \A c \in k.comments \ m.comments :
                      m.next_comment_id <= c.id /\ c.entry = "downtime"
<1> DEFINE k == RegisterDowntime(m, id, o)
           a == AddComment(m, o, "downtime", FALSE)
           n == [id |-> m.next_comment_id, object |-> o, entry |-> "downtime",
                 persistent |-> FALSE]
           d == [id |-> id, object |-> o, comment_id |-> m.next_comment_id]
           e == [id |-> id, object |-> o, comment_id |-> 0]
<1>1. m \in Memories /\ m.next_comment_id \in Nat /\ m.downtimes \subseteq Scheduled
      /\ m.comments \subseteq Comments
  BY MemoryFields DEF Good
<1>2. d \in Scheduled /\ e \in Scheduled
  BY <1>1 DEF Scheduled
<1>3. CASE o \in m.present
  <2>1. k = [a EXCEPT !.downtimes = a.downtimes \cup {d}]
    BY <1>3 DEF RegisterDowntime
  <2>2. Good(a)
    BY OneMoreIsGood DEF Entries
  <2>3. /\ a \in Memories /\ a.present = m.present /\ a.status = m.status
        /\ a.downtimes = m.downtimes /\ a.comments = m.comments \cup {n}
        /\ a.next_comment_id = m.next_comment_id + 1
    BY <1>1, AddCommentAdds DEF Entries
  <2>4. /\ d.comment_id = m.next_comment_id /\ d.object = o
        /\ n.id = m.next_comment_id /\ n.object = o /\ n.entry = "downtime"
    OBVIOUS
  <2> HIDE DEF a, d, n
  <2>5. /\ k.present = m.present /\ k.status = m.status
        /\ k.downtimes = m.downtimes \cup {d} /\ k.comments = m.comments \cup {n}
        /\ k.next_comment_id = m.next_comment_id + 1
    BY <2>1, <2>3 DEF Memories
  <2>6. k \in Memories
    BY <1>1, <1>2, <2>1, <2>3 DEF Memories
  <2> HIDE DEF k
  <2>7. IdsAgree(k)
    BY <2>2, <2>3, <2>5 DEF Good, IdsAgree
  <2>8. AcknowledgementsAgree(k)
    BY <2>2, <2>3, <2>5 DEF Good, AcknowledgementsAgree
  <2>9. IdsBelow(k)
    <3>1. \A c \in k.comments : c.id < k.next_comment_id
      BY <2>2, <2>3, <2>5 DEF Good, IdsBelow
    <3>2. \A x \in Objects : k.status[x].flapping_comment_id # 0 =>
               k.status[x].flapping_comment_id < k.next_comment_id
      BY <2>2, <2>3, <2>5 DEF Good, IdsBelow
    <3>3. d.comment_id < k.next_comment_id
      BY <1>1, <2>4, <2>5
    <3>4. \A x \in k.downtimes : x.comment_id # 0 => x.comment_id < k.next_comment_id
      BY <2>2, <2>3, <2>5, <3>3 DEF Good, IdsBelow
    <3> QED
      BY <3>1, <3>2, <3>4 DEF IdsBelow
  <2>10. OwnersAgree(k)
    <3>1. \A x \in Objects : k.status[x].flapping_comment_id # 0 =>
            \A c \in k.comments : c.id = k.status[x].flapping_comment_id =>
                c.object = x /\ c.entry = "flapping"
      BY <2>2, <2>3, <2>5 DEF Good, OwnersAgree
    <3>2. ASSUME NEW c \in k.comments, c.id = d.comment_id
          PROVE  c.object = d.object /\ c.entry = "downtime"
      <4>1. \A x \in m.comments : x.id < m.next_comment_id /\ x.id \in Nat
        BY <1>1 DEF Good, IdsBelow, Comments
      <4>2. c = n
        BY <1>1, <2>4, <2>5, <3>2, <4>1
      <4> QED
        BY <2>4, <4>2
    <3>3. \A x \in k.downtimes : x.comment_id # 0 =>
            \A c \in k.comments : c.id = x.comment_id => c.object = x.object /\ c.entry = "downtime"
      BY <2>2, <2>3, <2>5, <3>2 DEF Good, OwnersAgree
    <3> QED
      BY <3>1, <3>3 DEF OwnersAgree
  <2>11. Good(k)
    BY <2>6, <2>7, <2>8, <2>9, <2>10 DEF Good
  <2>12. m.next_comment_id <= k.next_comment_id /\ m.next_comment_id <= n.id
    BY <1>1, <2>4, <2>5
  <2> QED
    BY <2>4, <2>5, <2>11, <2>12 DEF k
<1>4. CASE o \notin m.present
  <2>1. k = [m EXCEPT !.downtimes = m.downtimes \cup {e}]
    BY <1>4 DEF RegisterDowntime
  <2>2. e.comment_id = 0
    OBVIOUS
  <2> HIDE DEF e
  <2>3. /\ k.present = m.present /\ k.status = m.status
        /\ k.downtimes = m.downtimes \cup {e} /\ k.comments = m.comments
        /\ k.next_comment_id = m.next_comment_id
    BY <1>1, <2>1 DEF Memories
  <2>4. k \in Memories
    BY <1>1, <1>2, <2>1 DEF Memories
  <2> HIDE DEF k
  <2>5. Good(k)
    BY <2>2, <2>3, <2>4 DEF Good, IdsAgree, OwnersAgree, AcknowledgementsAgree, IdsBelow
  <2>6. m.next_comment_id <= k.next_comment_id
    BY <1>1, <2>3
  <2> QED
    BY <2>3, <2>5, <2>6 DEF k
<1> QED
  BY <1>3, <1>4

\* A downtime is scheduled, or one is deleted with its comment.
LEMMA DowntimeIsValid ==
    ASSUME Valid(memory, config),
           (\E o \in Objects : ScheduleDowntime(o)) \/ DeleteDowntime
    PROVE  Valid(memory', config)
<1>1. CASE \E o \in Objects : ScheduleDowntime(o)
  <2>1. PICK o \in Objects, id \in Downtimes : memory' = RegisterDowntime(memory, id, o)
    BY <1>1 DEF ScheduleDowntime, Running
  <2>2. /\ Good(memory')
        /\ memory'.present = memory.present /\ memory'.status = memory.status
    BY <2>1, RegisterIsGood DEF Valid
  <2> QED
    BY <2>2 DEF Valid, MarksAgree
<1>2. CASE DeleteDowntime
  <2>1. PICK d \in memory.downtimes :
          memory' = [DeleteComment(memory, d.comment_id) EXCEPT !.downtimes = @ \ {d}]
    BY <1>2 DEF DeleteDowntime, Running
  <2> DEFINE a == DeleteComment(memory, d.comment_id)
  <2>2. memory \in Memories
    BY DEF Valid, Good
  <2>3. /\ a \in Memories /\ a.present = memory.present /\ a.status = memory.status
        /\ a.downtimes = memory.downtimes /\ a.next_comment_id = memory.next_comment_id
        /\ a.comments \subseteq memory.comments
    BY <2>2, DeleteCommentDeletes
  <2>4. memory' = [a EXCEPT !.downtimes = a.downtimes \ {d}]
    BY <2>1
  <2> HIDE DEF a
  <2>5. /\ memory' \in Memories
        /\ memory'.present = memory.present /\ memory'.status = memory.status
        /\ memory'.downtimes \subseteq memory.downtimes
        /\ memory'.next_comment_id = memory.next_comment_id
        /\ memory'.comments \subseteq memory.comments
    BY <2>3, <2>4 DEF Memories
  <2> QED
    BY <2>5, LessIsValid
<1> QED
  BY <1>1, <1>2

\* Comments are added and deleted by command.
LEMMA CommandsAreValid ==
    ASSUME Valid(memory, config),
           \/ \E o \in Objects : CmdAddComment(o) \/ CmdDeleteAllComments(o)
           \/ CmdDeleteComment
    PROVE  Valid(memory', config)
<1>1. memory \in Memories
  BY DEF Valid, Good
<1>2. CASE \E o \in Objects : CmdAddComment(o)
  <2>1. PICK o \in Objects, persistent \in BOOLEAN :
          memory' = AddComment(memory, o, "user", persistent)
    BY <1>2 DEF CmdAddComment, Running
  <2> QED
    BY <2>1, OneMoreIsValid DEF Entries
<1>3. CASE \E o \in Objects : CmdDeleteAllComments(o)
  <2>1. PICK o \in Objects : memory' = DeleteAllComments(memory, o)
    BY <1>3 DEF CmdDeleteAllComments, Running
  <2>2. /\ memory' \in Memories /\ memory'.present = memory.present
        /\ memory'.status = memory.status /\ memory'.downtimes = memory.downtimes
        /\ memory'.next_comment_id = memory.next_comment_id
        /\ memory'.comments \subseteq memory.comments
    BY <1>1, <2>1, DeleteAllDeletes
  <2> QED
    BY <2>2, LessIsValid
<1>4. CASE CmdDeleteComment
  <2>1. PICK c \in memory.comments : memory' = DeleteComment(memory, c.id)
    BY <1>4 DEF CmdDeleteComment, Running
  <2>2. /\ memory' \in Memories /\ memory'.present = memory.present
        /\ memory'.status = memory.status /\ memory'.downtimes = memory.downtimes
        /\ memory'.next_comment_id = memory.next_comment_id
        /\ memory'.comments \subseteq memory.comments
    BY <1>1, <2>1, DeleteCommentDeletes
  <2> QED
    BY <2>2, LessIsValid
<1> QED
  BY <1>2, <1>3, <1>4
-----------------------------------------------------------------------------
\* The inductive invariant.

\* What has been read is in memory, and nothing else but what flap detection
\* and registered downtimes have added, under ids that the file does not use.
Read(m, f) ==
    /\ f.next_comment_id <= m.next_comment_id
    /\ \A c \in m.comments : c \in f.comments \ todo.comments \/ f.next_comment_id <= c.id
    /\ \A o \in Objects : \/ m.status[o].flapping_comment_id
                                \in {0, f.status[o].flapping_comment_id}
                          \/ f.next_comment_id <= m.status[o].flapping_comment_id

\* The order of the entries.
InOrder(m, f) ==
    /\ todo.objects \subseteq f.present
    /\ todo.comments \subseteq f.comments
    /\ todo.downtimes \subseteq f.downtimes
    /\ todo.objects # {} =>
           todo.comments = f.comments /\ \A c \in m.comments : c.entry = "flapping"
    /\ todo.objects # {} \/ todo.comments # {} => m.downtimes = {}

\* What ChangesAreKept speaks of, of what has been read so far.
Kept(m, f) ==
    /\ \A c \in f.comments \ todo.comments :
           c.persistent /\ c.object \in config.present => c \in m.comments
    /\ \A o \in (config.present \cap f.present) \ todo.objects :
           SameLasting(m.status[o], Restored(config, f.status[o], o))

\* An orderly stop has left its memory in the file.
StopsAgree ==
    \A before \in stopped :
        before.memory = file /\ MarksAgree(before.memory, before.config)

IInv ==
    /\ TypeOK
    /\ Good(memory) /\ Good(file)
    /\ phase # "down" => Valid(memory, config)
    /\ phase = "running" => stopped = {}
    /\ StopsAgree
    /\ phase = "loading" => Read(memory, file) /\ InOrder(memory, file) /\ Kept(memory, file)
-----------------------------------------------------------------------------
\* Stopping and starting.

\* What is remembered before anything but the program entry was read.
LEMMA FreshIsValid ==
    ASSUME RetentionConstants, NEW conf \in Configurations, NEW f,
           f.next_comment_id \in Nat
    PROVE  LET m == Fresh(conf, f)
           IN  /\ Valid(m, conf)
               /\ m.comments = {} /\ m.downtimes = {}
               /\ m.next_comment_id = f.next_comment_id
               /\ \A o \in Objects : m.status[o].flapping_comment_id = 0
<1> DEFINE m == Fresh(conf, f)
<1>1. conf \in Settings
  BY DEF RetentionConstants
<1>2. ASSUME NEW o \in Objects
      PROVE  /\ Configured(conf, o) \in Status
             /\ Configured(conf, o).flapping_comment_id = 0
             /\ Marked(Configured(conf, o), conf, o)
  BY <1>1 DEF Settings, Configured, Status, Marked
<1>3. /\ m.present = conf.present /\ m.status = [o \in Objects |-> Configured(conf, o)]
      /\ m.comments = {} /\ m.downtimes = {} /\ m.next_comment_id = f.next_comment_id
  BY DEF Fresh
<1>4. m \in Memories
  <2>1. conf.present \in SUBSET Objects
    BY <1>1 DEF Settings
  <2>2. [o \in Objects |-> Configured(conf, o)] \in [Objects -> Status]
    BY <1>2
  <2> QED
    BY <2>1, <2>2 DEF Fresh, Memories
<1> HIDE DEF m
<1>5. \A o \in Objects : m.status[o].flapping_comment_id = 0 /\ Marked(m.status[o], conf, o)
  BY <1>2, <1>3
<1>6. Good(m)
  BY <1>3, <1>4, <1>5 DEF Good, IdsAgree, OwnersAgree, AcknowledgementsAgree, IdsBelow
<1> QED
  BY <1>3, <1>5, <1>6 DEF Valid, MarksAgree, m

\* A load begins.
LEMMA BeginIsValid ==
    ASSUME RetentionConstants, NEW conf \in Configurations, NEW sighup \in BOOLEAN,
           Good(file'), Begin(conf, file', sighup), StopsAgree', steps' \in Nat,
           stopped' \subseteq [memory : Memories, config : Configurations]
    PROVE  IInv'
<1>1. /\ phase' = "loading" /\ config' = conf /\ sigrestart' = sighup
      /\ memory' = Fresh(conf, file') /\ todo' = EntriesOf(file')
  BY DEF Begin
<1>2. /\ file' \in Memories /\ file'.next_comment_id \in Nat
      /\ file'.present \in SUBSET Objects /\ file'.comments \in SUBSET Comments
      /\ file'.downtimes \in SUBSET Scheduled
  BY MemoryFields DEF Good
<1>3. /\ todo'.objects = file'.present /\ todo'.comments = file'.comments
      /\ todo'.downtimes = file'.downtimes
  BY <1>1 DEF EntriesOf
<1>4. /\ Valid(memory', conf)
      /\ memory'.comments = {} /\ memory'.downtimes = {}
      /\ memory'.next_comment_id = file'.next_comment_id
      /\ \A o \in Objects : memory'.status[o].flapping_comment_id = 0
  BY <1>1, <1>2, FreshIsValid
<1>5. todo' \in [objects : SUBSET Objects, comments : SUBSET Comments,
                 downtimes : SUBSET Scheduled]
  BY <1>1, <1>2 DEF EntriesOf
<1>6. TypeOK'
  BY <1>1, <1>2, <1>4, <1>5 DEF TypeOK, Valid, Good
<1>7. file'.next_comment_id <= memory'.next_comment_id
  BY <1>2, <1>4
<1>8. Read(memory, file)'
  BY <1>4, <1>7 DEF Read
<1>9. InOrder(memory, file)'
  BY <1>3, <1>4 DEF InOrder
<1>10. Kept(memory, file)'
  BY <1>3 DEF Kept
<1> QED
  BY <1>1, <1>4, <1>6, <1>8, <1>9, <1>10 DEF IInv, Valid

\* At first nothing is configured yet, and there is no file.
LEMMA InitIsGood ==
    ASSUME RetentionConstants, Init
    PROVE  IInv
<1>1. PICK conf \in Configurations :
        /\ phase = "down" /\ config = conf /\ sigrestart = FALSE
        /\ memory = [Fresh(conf, [next_comment_id |-> 0]) EXCEPT !.present = {}]
        /\ file = memory
        /\ todo = Nothing /\ stopped = {} /\ steps = 0
  BY DEF Init
<1> DEFINE f == [next_comment_id |-> 0]
           m == Fresh(conf, f)
<1>2. /\ Valid(m, conf)
      /\ m.comments = {} /\ m.downtimes = {}
      /\ \A o \in Objects : m.status[o].flapping_comment_id = 0
  <2>1. f.next_comment_id \in Nat
    OBVIOUS
  <2> QED
    BY <2>1, FreshIsValid
<1>3. memory = [m EXCEPT !.present = {}] /\ m \in Memories
  BY <1>1, <1>2 DEF Valid, Good
<1> HIDE DEF m
<1>4. /\ memory \in Memories /\ memory.status = m.status
      /\ memory.comments = m.comments /\ memory.downtimes = m.downtimes
      /\ memory.next_comment_id = m.next_comment_id
  BY <1>3 DEF Memories
<1>5. Good(memory)
  BY <1>2, <1>4 DEF Good, IdsAgree, OwnersAgree, AcknowledgementsAgree, IdsBelow
<1>6. todo \in [objects : SUBSET Objects, comments : SUBSET Comments,
                downtimes : SUBSET Scheduled]
  BY <1>1 DEF Nothing
<1>7. TypeOK
  BY <1>1, <1>4, <1>6 DEF TypeOK
<1> QED
  BY <1>1, <1>5, <1>7 DEF IInv, StopsAgree

-----------------------------------------------------------------------------
\* The steps.

\* What the steps of a running daemon have in common.
Runs ==
    /\ phase = "running" /\ steps' = steps + 1
    /\ UNCHANGED <<phase, config, sigrestart, file, todo, stopped>>

\* A running daemon's step that leaves a valid memory.
LEMMA RunningIsGood ==
    ASSUME IInv, Runs, Valid(memory', config)
    PROVE  IInv'
<1>1. /\ phase = "running" /\ steps' = steps + 1
      /\ phase' = phase /\ config' = config /\ sigrestart' = sigrestart
      /\ file' = file /\ todo' = todo /\ stopped' = stopped
  BY DEF Runs
<1>2. TypeOK'
  BY <1>1 DEF IInv, TypeOK, Valid, Good
<1>3. StopsAgree'
  BY <1>1 DEF IInv, StopsAgree
<1>4. Good(memory)' /\ Good(file)'
  BY <1>1 DEF IInv, Valid
<1>5. Valid(memory, config)'
  BY <1>1
<1>6. phase' = "running" /\ stopped' = {}
  BY <1>1 DEF IInv
<1> QED
  BY <1>2, <1>3, <1>4, <1>5, <1>6 DEF IInv

\* Every step of a running daemon on what it remembers.
LEMMA CommandsAreGood ==
    ASSUME IInv, RetentionConstants,
           \/ \E o \in memory.present :
                  \/ HandleResult(o) \/ AcknowledgeProblem(o) \/ RemoveAcknowledgement(o)
                  \/ CmdAddComment(o) \/ CmdDeleteAllComments(o)
                  \/ EnableFlapDetection(o) \/ DisableFlapDetection(o) \/ ClearFlappingState(o)
                  \/ ChangeCheckPeriod(o) \/ ScheduleDowntime(o)
           \/ CmdDeleteComment \/ DeleteDowntime
    PROVE  IInv'
<1>1. Runs
  <2>1. CASE \E o \in memory.present : HandleResult(o)
    <3>1. PICK o \in memory.present : HandleResult(o)
      BY <2>1
    <3>2. PICK problem \in BOOLEAN, state_change \in BOOLEAN, p \in Percentages,
               q \in Percentages :
            LET s == memory.status[o]
                ends == state_change /\ \/ s.acknowledgement_type = "normal"
                                        \/ s.acknowledgement_type = "sticky" /\ ~problem
                checked == IF ends
                           THEN WithStatus(DeleteAcknowledgementComments(memory, o), o,
                                    [s EXCEPT !.problem = problem, !.acknowledged = FALSE,
                                              !.acknowledgement_type = "none"])
                           ELSE WithStatus(memory, o, [s EXCEPT !.problem = problem])
            IN  Running(CheckForFlapping(CheckForFlapping(checked, o, p), HostOf[o], q))
      BY <3>1 DEF HandleResult
    <3> QED
      BY <3>2 DEF Running, Runs
  <2>5. CASE \E o \in memory.present : AcknowledgeProblem(o) \/ RemoveAcknowledgement(o)
    BY <2>5 DEF AcknowledgeProblem, RemoveAcknowledgement, Running, Runs
  <2>2. CASE \E o \in memory.present :
                 EnableFlapDetection(o) \/ DisableFlapDetection(o) \/ ClearFlappingState(o)
    BY <2>2 DEF EnableFlapDetection, DisableFlapDetection, ClearFlappingState, Running, Runs
  <2>3. CASE \E o \in memory.present :
                 CmdAddComment(o) \/ CmdDeleteAllComments(o) \/ ChangeCheckPeriod(o)
                 \/ ScheduleDowntime(o)
    BY <2>3 DEF CmdAddComment, CmdDeleteAllComments, ChangeCheckPeriod, ScheduleDowntime,
                Running, Runs
  <2>4. CASE CmdDeleteComment \/ DeleteDowntime
    BY <2>4 DEF CmdDeleteComment, DeleteDowntime, Running, Runs
  <2> QED
    BY <2>1, <2>2, <2>3, <2>4, <2>5
<1>2. Valid(memory, config)
  BY <1>1 DEF IInv, Runs
<1>3. memory.present \subseteq Objects /\ config.periods \subseteq Periods
  <2>1. memory \in Memories /\ config \in Settings
    BY DEF IInv, TypeOK, RetentionConstants
  <2> QED
    BY <2>1 DEF Memories, Settings
<1>4. Valid(memory', config)
  <2>1. CASE \E o \in memory.present : HandleResult(o)
    BY <1>2, <1>3, <2>1, HandleResultIsValid
  <2>2. CASE \E o \in memory.present : AcknowledgeProblem(o)
    BY <1>2, <1>3, <2>2, AcknowledgeIsValid
  <2>3. CASE \E o \in memory.present : RemoveAcknowledgement(o)
    BY <1>2, <1>3, <2>3, RemoveIsValid
  <2>4. CASE \/ \E o \in memory.present : CmdAddComment(o) \/ CmdDeleteAllComments(o)
             \/ CmdDeleteComment
    BY <1>2, <1>3, <2>4, CommandsAreValid
  <2>5. CASE \E o \in memory.present : EnableFlapDetection(o) \/ DisableFlapDetection(o)
    BY <1>2, <1>3, <2>5, DetectionIsValid
  <2>6. CASE \E o \in memory.present : ClearFlappingState(o)
    <3>1. PICK o \in memory.present : memory' = ClearFlap(memory, o)
      BY <2>6 DEF ClearFlappingState, Running
    <3> QED
      BY <1>2, <1>3, <3>1, ClearFlapIsValid
  <2>7. CASE \E o \in memory.present : ChangeCheckPeriod(o)
    BY <1>2, <1>3, <2>7, PeriodIsValid
  <2>8. CASE (\E o \in memory.present : ScheduleDowntime(o)) \/ DeleteDowntime
    BY <1>2, <1>3, <2>8, DowntimeIsValid
  <2> QED
    BY <2>1, <2>2, <2>3, <2>4, <2>5, <2>6, <2>7, <2>8
<1> QED
  BY <1>1, <1>4, RunningIsGood

\* The file is written.
LEMMA SaveIsGood ==
    ASSUME IInv, SaveStateInformation
    PROVE  IInv'
<1>1. /\ phase = "running" /\ file' = memory /\ steps' = steps + 1
      /\ phase' = phase /\ config' = config /\ sigrestart' = sigrestart
      /\ memory' = memory /\ todo' = todo /\ stopped' = stopped
  BY DEF SaveStateInformation
<1>2. TypeOK'
  BY <1>1 DEF IInv, TypeOK
<1>3. stopped = {}
  BY <1>1 DEF IInv
<1>4. StopsAgree'
  BY <1>1, <1>3 DEF StopsAgree
<1> QED
  BY <1>1, <1>2, <1>3, <1>4 DEF IInv

\* SIGHUP.
LEMMA RestartIsGood ==
    ASSUME IInv, RetentionConstants, Restart
    PROVE  IInv'
<1>1. PICK conf \in Configurations, saved \in BOOLEAN :
        /\ phase = "running"
        /\ file' = IF saved THEN memory ELSE file
        /\ stopped' = IF saved THEN {[memory |-> memory, config |-> config]} ELSE {}
        /\ Begin(conf, file', TRUE)
        /\ steps' = steps + 1
  BY DEF Restart
<1>2. /\ memory \in Memories /\ config \in Configurations /\ steps \in Nat
      /\ Good(memory) /\ Good(file) /\ MarksAgree(memory, config)
  BY <1>1 DEF IInv, TypeOK, Valid
<1>3. Good(file')
  BY <1>1, <1>2
<1>4. \A before \in stopped' :
          /\ before = [memory |-> memory, config |-> config]
          /\ file' = memory
  BY <1>1
<1>5. StopsAgree'
  BY <1>2, <1>4 DEF StopsAgree
<1>6. stopped' \subseteq [memory : Memories, config : Configurations]
  BY <1>2, <1>4
<1>7. steps' \in Nat
  BY <1>1, <1>2
<1> QED
  BY <1>1, <1>3, <1>5, <1>6, <1>7, BeginIsValid

\* SIGTERM.
LEMMA ShutdownIsGood ==
    ASSUME IInv, Shutdown
    PROVE  IInv'
<1>1. PICK saved \in BOOLEAN :
        /\ phase = "running"
        /\ file' = IF saved THEN memory ELSE file
        /\ stopped' = IF saved THEN {[memory |-> memory, config |-> config]} ELSE {}
        /\ phase' = "down"
        /\ steps' = steps + 1
        /\ config' = config /\ sigrestart' = sigrestart
        /\ memory' = memory /\ todo' = todo
  BY DEF Shutdown
<1>2. /\ memory \in Memories /\ config \in Configurations /\ steps \in Nat
      /\ Good(memory) /\ Good(file) /\ MarksAgree(memory, config)
  BY <1>1 DEF IInv, TypeOK, Valid
<1>3. Good(file')
  BY <1>1, <1>2
<1>4. \A before \in stopped' :
          /\ before = [memory |-> memory, config |-> config]
          /\ file' = memory
  BY <1>1
<1>5. StopsAgree'
  BY <1>2, <1>4 DEF StopsAgree
<1>6. stopped' \subseteq [memory : Memories, config : Configurations]
  BY <1>2, <1>4
<1>7. TypeOK'
  BY <1>1, <1>2, <1>3, <1>6 DEF IInv, TypeOK, Good
<1> QED
  BY <1>1, <1>2, <1>3, <1>5, <1>7 DEF IInv

\* A crash, while running or loading.
LEMMA CrashIsGood ==
    ASSUME IInv, Crash
    PROVE  IInv'
<1>1. /\ phase' = "down" /\ todo' = Nothing
      /\ stopped' = IF phase = "loading" THEN stopped ELSE {}
      /\ steps' = steps + 1
      /\ config' = config /\ sigrestart' = sigrestart
      /\ memory' = memory /\ file' = file
  BY DEF Crash
<1>2. todo' \in [objects : SUBSET Objects, comments : SUBSET Comments,
                 downtimes : SUBSET Scheduled]
  BY <1>1 DEF Nothing
<1>3. stopped' \subseteq stopped
  BY <1>1
<1>4. TypeOK'
  BY <1>1, <1>2, <1>3 DEF IInv, TypeOK
<1>5. StopsAgree'
  BY <1>1, <1>3 DEF IInv, StopsAgree
<1> QED
  BY <1>1, <1>4, <1>5 DEF IInv

\* The daemon is started.
LEMMA StartIsGood ==
    ASSUME IInv, RetentionConstants, Start
    PROVE  IInv'
<1>1. PICK conf \in Configurations :
        /\ Begin(conf, file, FALSE)
        /\ file' = file /\ stopped' = stopped /\ steps' = steps
  BY DEF Start
<1>2. /\ Good(file') /\ steps' \in Nat
      /\ stopped' \subseteq [memory : Memories, config : Configurations]
  BY <1>1 DEF IInv, TypeOK
<1>3. StopsAgree'
  BY <1>1 DEF IInv, StopsAgree
<1>4. Begin(conf, file', FALSE)
  BY <1>1
<1> QED
  BY <1>2, <1>3, <1>4, BeginIsValid

-----------------------------------------------------------------------------
\* Loading.

\* What is restored of an object: its own id or none, and its marks.
LEMMA RestoredAgrees ==
    ASSUME NEW conf \in Settings, NEW s \in Status, NEW o \in Objects,
           LargeInstallationTweaks \in BOOLEAN
    PROVE  /\ Restored(conf, s, o) \in Status
           /\ Restored(conf, s, o).flapping_comment_id \in {0, s.flapping_comment_id}
           /\ Marked(Restored(conf, s, o), conf, o)
<1> DEFINE r == Restored(conf, s, o)
           both == conf.retain_status[o] /\ conf.retain_nonstatus[o]
           lost == both /\ "check_period" \in s.modified /\ s.check_period \notin conf.periods
<1>1. /\ conf.retain_status[o] \in BOOLEAN /\ conf.retain_nonstatus[o] \in BOOLEAN
      /\ conf.flap_detection[o] \in BOOLEAN /\ conf.check_period[o] \in Periods
  BY DEF Settings
<1>2. /\ s.problem \in BOOLEAN /\ s.acknowledged \in BOOLEAN
      /\ s.acknowledgement_type \in {"none", "normal", "sticky"}
      /\ s.is_flapping \in BOOLEAN /\ s.flapping_comment_id \in Nat
      /\ s.flap_detection_enabled \in BOOLEAN /\ s.check_period \in Periods
      /\ s.modified \subseteq Marks
  BY DEF Status
<1>3. /\ r.problem = (conf.retain_status[o] /\ s.problem)
      /\ r.acknowledged = (both /\ s.acknowledged)
      /\ r.acknowledgement_type = IF both THEN s.acknowledgement_type ELSE "none"
      /\ r.is_flapping = (LargeInstallationTweaks /\ conf.retain_status[o] /\ s.is_flapping)
      /\ r.flapping_comment_id =
           IF conf.retain_status[o] /\ sigrestart THEN s.flapping_comment_id ELSE 0
      /\ r.flap_detection_enabled =
           IF both /\ "flap_detection" \in s.modified THEN s.flap_detection_enabled
                                                      ELSE conf.flap_detection[o]
      /\ r.check_period = IF both /\ "check_period" \in s.modified /\ ~lost
                          THEN s.check_period ELSE conf.check_period[o]
      /\ r.check_period_ptr = conf.check_period[o]
      /\ r.modified = IF ~conf.retain_nonstatus[o] THEN {}
                      ELSE IF lost THEN s.modified \ {"check_period"} ELSE s.modified
  BY DEF Restored
<1>4. r = [problem |-> r.problem, acknowledged |-> r.acknowledged,
           acknowledgement_type |-> r.acknowledgement_type, is_flapping |-> r.is_flapping,
           flapping_comment_id |-> r.flapping_comment_id,
           flap_detection_enabled |-> r.flap_detection_enabled,
           check_period |-> r.check_period, check_period_ptr |-> r.check_period_ptr,
           modified |-> r.modified]
  BY DEF Restored
<1> HIDE DEF r
<1>5. /\ r.problem \in BOOLEAN /\ r.acknowledged \in BOOLEAN /\ r.is_flapping \in BOOLEAN
      /\ r.acknowledgement_type \in {"none", "normal", "sticky"}
  BY <1>1, <1>2, <1>3
<1>6. /\ r.flapping_comment_id \in Nat
      /\ r.flapping_comment_id \in {0, s.flapping_comment_id}
  BY <1>2, <1>3
<1>7. /\ r.flap_detection_enabled \in BOOLEAN /\ r.check_period \in Periods
      /\ r.check_period_ptr \in Periods /\ r.modified \subseteq Marks
  BY <1>1, <1>2, <1>3
<1>8. r \in Status
  BY <1>4, <1>5, <1>6, <1>7 DEF Status
<1>9. Marked(r, conf, o)
  BY <1>1, <1>2, <1>3 DEF Marked
<1> QED
  BY <1>6, <1>8, <1>9 DEF r

\* An object is read.
LEMMA LoadObjectIsGood ==
    ASSUME IInv, RetentionConstants, NEW o \in Objects, NEW p \in Percentages,
           LoadObject(o, p)
    PROVE  IInv'
<1> DEFINE r == Restored(config, file.status[o], o)
           m == WithStatus(memory, o, r)
<1>1. /\ phase = "loading" /\ o \in todo.objects
      /\ memory' = IF o \notin config.present THEN memory
                   ELSE IF LargeInstallationTweaks THEN m
                   ELSE CheckForFlapping(m, o, p)
      /\ todo' = [todo EXCEPT !.objects = @ \ {o}]
      /\ phase' = phase /\ config' = config /\ sigrestart' = sigrestart
      /\ file' = file /\ stopped' = stopped /\ steps' = steps
  BY DEF LoadObject
<1>2. /\ memory \in Memories /\ file \in Memories /\ Good(file) /\ Good(memory)
      /\ config \in Settings /\ Valid(memory, config) /\ MarksAgree(memory, config)
      /\ Read(memory, file) /\ InOrder(memory, file) /\ Kept(memory, file)
      /\ LargeInstallationTweaks \in BOOLEAN
  BY <1>1 DEF IInv, TypeOK, Valid, RetentionConstants
<1>3. /\ memory.status \in [Objects -> Status] /\ file.status \in [Objects -> Status]
      /\ memory.comments \subseteq Comments /\ memory.next_comment_id \in Nat
      /\ file.next_comment_id \in Nat /\ file.comments \subseteq Comments
  BY <1>2, MemoryFields
<1>4. /\ todo.objects \subseteq file.present /\ todo.comments = file.comments
      /\ \A c \in memory.comments : c.entry = "flapping"
      /\ memory.downtimes = {} /\ todo.downtimes \subseteq file.downtimes
  BY <1>1, <1>2 DEF InOrder
<1>5. /\ todo'.objects = todo.objects \ {o} /\ todo'.comments = todo.comments
      /\ todo'.downtimes = todo.downtimes
      /\ todo' \in [objects : SUBSET Objects, comments : SUBSET Comments,
                    downtimes : SUBSET Scheduled]
  BY <1>1 DEF IInv, TypeOK
<1>6. /\ r \in Status /\ r.flapping_comment_id \in {0, file.status[o].flapping_comment_id}
      /\ Marked(r, config, o)
  BY <1>2, <1>3, RestoredAgrees
<1>7. /\ m \in Memories /\ m.present = memory.present /\ m.comments = memory.comments
      /\ m.downtimes = memory.downtimes /\ m.next_comment_id = memory.next_comment_id
      /\ m.status = [memory.status EXCEPT ![o] = r]
  BY <1>2, <1>6, WithStatusReplaces
<1>8. m.status[o] = r /\ \A x \in Objects : x # o => m.status[x] = memory.status[x]
  BY <1>3, <1>7
<1>9. \A c \in memory.comments : file.next_comment_id <= c.id /\ c.id \in Nat
  BY <1>2, <1>3, <1>4 DEF Read, Comments
<1>10. \A x \in Objects : /\ file.status[x].flapping_comment_id \in Nat
                          /\ \/ file.status[x].flapping_comment_id = 0
                             \/ file.status[x].flapping_comment_id < file.next_comment_id
  BY <1>2, <1>3 DEF Good, IdsBelow, Status
<1>11. file.next_comment_id <= memory.next_comment_id
  BY <1>2 DEF Read
<1>12. SameLasting(r, r)
  BY DEF SameLasting
<1> HIDE DEF r, m
<1>13. Good(m)
  <2>1. IdsAgree(m)
    BY <1>2, <1>7 DEF Good, IdsAgree
  <2>2. AcknowledgementsAgree(m)
    BY <1>4, <1>7 DEF AcknowledgementsAgree
  <2>3. OwnersAgree(m)
    <3>1. ASSUME NEW x \in Objects, m.status[x].flapping_comment_id # 0,
                 NEW c \in m.comments, c.id = m.status[x].flapping_comment_id
          PROVE  c.object = x /\ c.entry = "flapping"
      <4>1. CASE x # o
        BY <1>2, <1>7, <1>8, <3>1, <4>1 DEF Good, OwnersAgree
      <4>2. CASE x = o
        <5>1. c.id = file.status[o].flapping_comment_id /\ c.id # 0
          BY <1>6, <1>8, <3>1, <4>2
        <5>2. c.id < file.next_comment_id
          BY <1>10, <5>1
        <5>3. file.next_comment_id <= c.id /\ c.id \in Nat
          BY <1>7, <1>9, <3>1
        <5> QED
          BY <1>3, <5>2, <5>3
      <4> QED
        BY <4>1, <4>2
    <3> QED
      BY <1>4, <1>7, <3>1 DEF OwnersAgree
  <2>4. IdsBelow(m)
    <3>1. ASSUME NEW x \in Objects, m.status[x].flapping_comment_id # 0
          PROVE  m.status[x].flapping_comment_id < m.next_comment_id
      <4>1. CASE x # o
        BY <1>2, <1>7, <1>8, <3>1, <4>1 DEF Good, IdsBelow
      <4>2. CASE x = o
        <5>1. m.status[x].flapping_comment_id = file.status[o].flapping_comment_id
          BY <1>6, <1>8, <3>1, <4>2
        <5>2. m.status[x].flapping_comment_id \in Nat
              /\ m.status[x].flapping_comment_id < file.next_comment_id
          BY <1>10, <3>1, <5>1
        <5> QED
          BY <1>3, <1>7, <1>11, <5>2
      <4> QED
        BY <4>1, <4>2
    <3>2. \A c \in m.comments : c.id < m.next_comment_id
      BY <1>2, <1>7 DEF Good, IdsBelow
    <3> QED
      BY <1>4, <1>7, <3>1, <3>2 DEF IdsBelow
  <2> QED
    BY <1>7, <2>1, <2>2, <2>3, <2>4 DEF Good
<1>14. Valid(m, config)
  <2>1. MarksAgree(m, config)
    BY <1>2, <1>6, <1>8 DEF MarksAgree
  <2> QED
    BY <1>2, <1>7, <1>13, <2>1 DEF Valid
<1>15. CASE o \notin config.present
  <2>1. memory' = memory
    BY <1>1, <1>15
  <2>2. Read(memory, file)'
    BY <1>1, <1>2, <1>5, <2>1 DEF Read
  <2>3. InOrder(memory, file)'
    BY <1>1, <1>4, <1>5, <2>1 DEF InOrder
  <2>4. Kept(memory, file)'
    <3>1. file'.comments \ todo'.comments = file.comments \ todo.comments
      BY <1>1, <1>5
    <3>2. (config'.present \cap file'.present) \ todo'.objects =
              (config.present \cap file.present) \ todo.objects
      BY <1>1, <1>5, <1>15
    <3>3. \A x \in (config.present \cap file.present) \ todo.objects :
            Restored(config, file.status[x], x)' = Restored(config, file.status[x], x)
      BY <1>1 DEF Restored
    <3> QED
      BY <1>1, <1>2, <2>1, <3>1, <3>2, <3>3 DEF Kept
  <2>5. TypeOK'
    BY <1>1, <1>5, <2>1 DEF IInv, TypeOK
  <2>6. StopsAgree'
    BY <1>1 DEF IInv, StopsAgree
  <2> QED
    BY <1>1, <1>2, <2>1, <2>2, <2>3, <2>4, <2>5, <2>6 DEF IInv
<1>16. CASE o \in config.present
  <2>1. Flapped(m, memory')
    <3>1. memory' = m \/ memory' = CheckForFlapping(m, o, p)
      BY <1>1, <1>2, <1>16
    <3> QED
      BY <1>13, <3>1, SameIsFlapped, CheckForFlappingFlaps
  <2>2. Valid(memory', config)
    BY <1>14, <2>1, FlappedIsValid
  <2>3. /\ memory' \in Memories /\ memory'.next_comment_id \in Nat
        /\ memory'.comments \subseteq Comments /\ memory'.status \in [Objects -> Status]
    BY <2>2, MemoryFields DEF Valid, Good
  <2>4. file.next_comment_id <= memory'.next_comment_id
    BY <1>3, <1>7, <1>11, <2>1, <2>3 DEF Flapped
  <2>5. \A c \in memory'.comments : c.entry = "flapping" /\ file.next_comment_id <= c.id
    <3> SUFFICES ASSUME NEW c \in memory'.comments
                 PROVE  c.entry = "flapping" /\ file.next_comment_id <= c.id
      OBVIOUS
    <3>1. CASE c \in m.comments
      BY <1>4, <1>7, <1>9, <3>1
    <3>2. CASE c.entry = "flapping" /\ m.next_comment_id <= c.id
      <4>1. c.id \in Nat
        BY <2>3 DEF Comments
      <4> QED
        BY <1>3, <1>7, <1>11, <3>2, <4>1
    <3> QED
      BY <2>1, <3>1, <3>2 DEF Flapped
  <2>6. \A x \in Objects :
            \/ memory'.status[x].flapping_comment_id \in {0, file.status[x].flapping_comment_id}
            \/ file.next_comment_id <= memory'.status[x].flapping_comment_id
    <3> SUFFICES ASSUME NEW x \in Objects
                 PROVE  \/ memory'.status[x].flapping_comment_id
                              \in {0, file.status[x].flapping_comment_id}
                        \/ file.next_comment_id <= memory'.status[x].flapping_comment_id
      OBVIOUS
    <3>1. \/ m.status[x].flapping_comment_id \in {0, file.status[x].flapping_comment_id}
          \/ file.next_comment_id <= m.status[x].flapping_comment_id
      BY <1>2, <1>6, <1>8 DEF Read
    <3>2. CASE m.next_comment_id <= memory'.status[x].flapping_comment_id
      <4>1. memory'.status[x].flapping_comment_id \in Nat
        BY <2>3 DEF Status
      <4> QED
        BY <1>3, <1>7, <1>11, <3>2, <4>1
    <3> QED
      BY <2>1, <3>1, <3>2 DEF Flapped
  <2>7. Read(memory, file)'
    BY <1>1, <2>4, <2>5, <2>6 DEF Read
  <2>8. InOrder(memory, file)'
    BY <1>1, <1>4, <1>5, <1>7, <2>1, <2>5 DEF InOrder, Flapped
  <2>9. Kept(memory, file)'
    <3>1. file'.comments \ todo'.comments = {}
      BY <1>1, <1>4, <1>5
    <3>2. ASSUME NEW x \in (config'.present \cap file'.present) \ todo'.objects
          PROVE  SameLasting(memory'.status[x], Restored(config, file.status[x], x))
      <4>1. x \in Objects
        BY <1>1, <1>2, <3>2, MemoryFields DEF Settings
      <4>2. SameLasting(memory'.status[x], m.status[x])
        BY <2>1, <4>1 DEF Flapped
      <4>3. SameLasting(m.status[x], Restored(config, file.status[x], x))
        <5>1. CASE x = o
          BY <1>8, <1>12, <5>1 DEF r
        <5>2. CASE x # o
          BY <1>1, <1>2, <1>5, <1>8, <3>2, <4>1, <5>2 DEF Kept
        <5> QED
          BY <5>1, <5>2
      <4> QED
        BY <4>2, <4>3 DEF SameLasting
    <3>3. \A x \in Objects :
            Restored(config, file.status[x], x)' = Restored(config, file.status[x], x)
      BY <1>1 DEF Restored
    <3>4. config'.present \subseteq Objects
      BY <1>1, <1>2 DEF Settings
    <3> QED
      BY <3>1, <3>2, <3>3, <3>4 DEF Kept
  <2>10. TypeOK'
    BY <1>1, <1>5, <2>3 DEF IInv, TypeOK
  <2>11. StopsAgree'
    BY <1>1 DEF IInv, StopsAgree
  <2> QED
    BY <1>1, <1>2, <2>2, <2>7, <2>8, <2>9, <2>10, <2>11 DEF IInv, Valid
<1> QED
  BY <1>15, <1>16

\* A comment is read.
LEMMA LoadCommentIsGood ==
    ASSUME IInv, NEW c \in todo.comments, LoadComment(c), RetentionConstants
    PROVE  IInv'
<1>1. /\ phase = "loading" /\ todo.objects = {}
      /\ memory' = IF Keeps(c) THEN [memory EXCEPT !.comments = @ \cup {c}] ELSE memory
      /\ todo' = [todo EXCEPT !.comments = @ \ {c}]
      /\ phase' = phase /\ config' = config /\ sigrestart' = sigrestart
      /\ file' = file /\ stopped' = stopped /\ steps' = steps
  BY DEF LoadComment
<1>2. /\ memory \in Memories /\ file \in Memories /\ Good(file) /\ Good(memory)
      /\ config \in Settings /\ Valid(memory, config) /\ MarksAgree(memory, config)
      /\ Read(memory, file) /\ InOrder(memory, file) /\ Kept(memory, file)
  BY <1>1 DEF IInv, TypeOK, Valid, RetentionConstants
<1>3. /\ memory.status \in [Objects -> Status] /\ memory.next_comment_id \in Nat
      /\ file.next_comment_id \in Nat /\ file.comments \subseteq Comments
      /\ memory.comments \subseteq Comments /\ file.status \in [Objects -> Status]
  BY <1>2, MemoryFields
<1>4. /\ c \in file.comments /\ todo.comments \subseteq file.comments
      /\ todo.downtimes \subseteq file.downtimes /\ memory.downtimes = {}
  BY <1>2 DEF InOrder
<1>5. /\ todo'.objects = {} /\ todo'.comments = todo.comments \ {c}
      /\ todo'.downtimes = todo.downtimes
      /\ todo' \in [objects : SUBSET Objects, comments : SUBSET Comments,
                    downtimes : SUBSET Scheduled]
  BY <1>1 DEF IInv, TypeOK
<1>6. c \in Comments /\ c.id \in Nat /\ c.id < file.next_comment_id
  BY <1>2, <1>3, <1>4 DEF Good, IdsBelow, Comments
<1>7. /\ memory' \in Memories /\ memory'.present = memory.present
      /\ memory'.status = memory.status /\ memory'.downtimes = memory.downtimes
      /\ memory'.next_comment_id = memory.next_comment_id
      /\ memory'.comments = IF Keeps(c) THEN memory.comments \cup {c} ELSE memory.comments
  BY <1>1, <1>2, <1>6 DEF Memories
<1>8. file.next_comment_id <= memory.next_comment_id
  BY <1>2 DEF Read
<1>9. \A d \in memory.comments : /\ d.id \in Nat
                                 /\ d \in file.comments \/ file.next_comment_id <= d.id
  BY <1>2, <1>3 DEF Read, Comments
<1>10. Good(memory')
  <2>1. IdsAgree(memory')
    <3>1. ASSUME NEW d \in memory.comments, d.id = c.id PROVE d = c
      <4>1. d \in file.comments
        BY <1>3, <1>6, <1>9, <3>1
      <4> QED
        BY <1>2, <1>4, <3>1, <4>1 DEF Good, IdsAgree
    <3> QED
      BY <1>2, <1>7, <3>1 DEF Good, IdsAgree
  <2>2. OwnersAgree(memory')
    <3>1. ASSUME NEW x \in Objects, memory.status[x].flapping_comment_id # 0,
                 c.id = memory.status[x].flapping_comment_id
          PROVE  c.object = x /\ c.entry = "flapping"
      <4>1. memory.status[x].flapping_comment_id = file.status[x].flapping_comment_id
        BY <1>2, <1>3, <1>6, <3>1 DEF Read
      <4> QED
        BY <1>2, <1>4, <3>1, <4>1 DEF Good, OwnersAgree
    <3> QED
      BY <1>2, <1>4, <1>7, <3>1 DEF Good, OwnersAgree
  <2>3. AcknowledgementsAgree(memory')
    <3>1. ASSUME Keeps(c), c.entry = "acknowledgement", ~c.persistent
          PROVE  memory.status[c.object].acknowledged
      BY <3>1 DEF Keeps
    <3> QED
      BY <1>2, <1>7, <3>1 DEF Good, AcknowledgementsAgree
  <2>4. IdsBelow(memory')
    <3>1. c.id < memory.next_comment_id
      BY <1>3, <1>6, <1>8
    <3> QED
      BY <1>2, <1>7, <3>1 DEF Good, IdsBelow
  <2> QED
    BY <1>7, <2>1, <2>2, <2>3, <2>4 DEF Good
<1>11. Valid(memory', config)
  BY <1>2, <1>7, <1>10 DEF Valid, MarksAgree
<1>12. Read(memory, file)'
  BY <1>1, <1>2, <1>4, <1>5, <1>7 DEF Read
<1>13. InOrder(memory, file)'
  BY <1>1, <1>4, <1>5, <1>7 DEF InOrder
<1>14. Kept(memory, file)'
  <2>1. \A x \in Objects :
            Restored(config, file.status[x], x)' = Restored(config, file.status[x], x)
    BY <1>1 DEF Restored
  <2>2. \A x \in (config.present \cap file.present) \ todo.objects : x \in Objects
    BY <1>2 DEF Settings
  <2>3. \A x \in (config'.present \cap file'.present) \ todo'.objects :
            SameLasting(memory'.status[x], Restored(config, file.status[x], x)')
    BY <1>1, <1>2, <1>5, <1>7, <2>1, <2>2 DEF Kept
  <2>4. ASSUME c.persistent, c.object \in config.present
        PROVE  c \in memory'.comments
    <3>1. Keeps(c)
      BY <2>4 DEF Keeps
    <3> QED
      BY <1>7, <3>1
  <2>5. ASSUME NEW d \in file.comments \ todo'.comments, d.persistent,
               d.object \in config.present
        PROVE  d \in memory'.comments
    <3>1. CASE d = c
      BY <2>4, <2>5, <3>1
    <3>2. CASE d # c
      <4>1. d \in memory.comments
        BY <1>2, <1>5, <2>5, <3>2 DEF Kept
      <4> QED
        BY <1>7, <4>1
    <3> QED
      BY <3>1, <3>2
  <2> QED
    BY <1>1, <2>3, <2>5 DEF Kept
<1>15. TypeOK'
  BY <1>1, <1>5, <1>7 DEF IInv, TypeOK
<1>16. StopsAgree'
  BY <1>1 DEF IInv, StopsAgree
<1> QED
  BY <1>1, <1>2, <1>10, <1>11, <1>12, <1>13, <1>14, <1>15, <1>16 DEF IInv

\* A downtime is read.
LEMMA LoadDowntimeIsGood ==
    ASSUME IInv, NEW d \in todo.downtimes, LoadDowntime(d), RetentionConstants
    PROVE  IInv'
<1>1. /\ phase = "loading" /\ todo.objects = {} /\ todo.comments = {}
      /\ memory' = RegisterDowntime(memory, d.id, d.object)
      /\ todo' = [todo EXCEPT !.downtimes = @ \ {d}]
      /\ phase' = phase /\ config' = config /\ sigrestart' = sigrestart
      /\ file' = file /\ stopped' = stopped /\ steps' = steps
  BY DEF LoadDowntime
<1>2. /\ memory \in Memories /\ file \in Memories /\ Good(file) /\ Good(memory)
      /\ config \in Settings /\ Valid(memory, config) /\ MarksAgree(memory, config)
      /\ Read(memory, file) /\ InOrder(memory, file) /\ Kept(memory, file)
      /\ todo.downtimes \subseteq Scheduled
  BY <1>1 DEF IInv, TypeOK, Valid, RetentionConstants
<1>3. d.id \in Downtimes /\ d.object \in Objects
  BY <1>2 DEF Scheduled
<1>4. /\ Good(memory')
      /\ memory'.present = memory.present /\ memory'.status = memory.status
      /\ memory.next_comment_id <= memory'.next_comment_id
      /\ memory.comments \subseteq memory'.comments
      /\ \A c \in memory'.comments \ memory.comments : memory.next_comment_id <= c.id
  BY <1>1, <1>2, <1>3, RegisterIsGood
<1>5. /\ memory.next_comment_id \in Nat /\ memory'.next_comment_id \in Nat
      /\ file.next_comment_id \in Nat /\ memory'.comments \subseteq Comments
      /\ file.next_comment_id <= memory.next_comment_id
  BY <1>2, <1>4, MemoryFields DEF Good, Read
<1>6. /\ todo'.objects = {} /\ todo'.comments = {}
      /\ todo'.downtimes \subseteq todo.downtimes
      /\ todo' \in [objects : SUBSET Objects, comments : SUBSET Comments,
                    downtimes : SUBSET Scheduled]
  BY <1>1 DEF IInv, TypeOK
<1>7. Valid(memory', config)
  BY <1>2, <1>4 DEF Valid, MarksAgree
<1>8. file.next_comment_id <= memory'.next_comment_id
  BY <1>4, <1>5
<1>9. \A c \in memory'.comments : c \in file.comments \/ file.next_comment_id <= c.id
  <2> SUFFICES ASSUME NEW c \in memory'.comments
               PROVE  c \in file.comments \/ file.next_comment_id <= c.id
    OBVIOUS
  <2>1. CASE c \in memory.comments
    BY <1>2, <2>1 DEF Read
  <2>2. CASE memory.next_comment_id <= c.id
    <3>1. c.id \in Nat
      BY <1>5 DEF Comments
    <3> QED
      BY <1>5, <2>2, <3>1
  <2> QED
    BY <1>4, <2>1, <2>2
<1>10. Read(memory, file)'
  BY <1>1, <1>2, <1>4, <1>6, <1>8, <1>9 DEF Read
<1>11. InOrder(memory, file)'
  BY <1>1, <1>2, <1>6 DEF InOrder
<1>12. Kept(memory, file)'
  <2>1. \A x \in Objects :
            Restored(config, file.status[x], x)' = Restored(config, file.status[x], x)
    BY <1>1 DEF Restored
  <2>2. \A x \in (config.present \cap file.present) \ todo.objects : x \in Objects
    BY <1>2 DEF Settings
  <2>3. \A x \in (config'.present \cap file'.present) \ todo'.objects :
            SameLasting(memory'.status[x], Restored(config, file.status[x], x)')
    BY <1>1, <1>2, <1>4, <1>6, <2>1, <2>2 DEF Kept
  <2>4. \A c \in file.comments \ todo'.comments :
            c.persistent /\ c.object \in config.present => c \in memory'.comments
    BY <1>1, <1>2, <1>4, <1>6 DEF Kept
  <2> QED
    BY <1>1, <2>3, <2>4 DEF Kept
<1>13. TypeOK'
  BY <1>1, <1>4, <1>6 DEF IInv, TypeOK, Good
<1>14. StopsAgree'
  BY <1>1 DEF IInv, StopsAgree
<1> QED
  BY <1>1, <1>2, <1>4, <1>7, <1>10, <1>11, <1>12, <1>13, <1>14 DEF IInv

\* The load ends.
LEMMA FinishLoadIsGood ==
    ASSUME IInv, FinishLoad
    PROVE  IInv'
<1>1. /\ phase = "loading" /\ phase' = "running" /\ sigrestart' = FALSE /\ stopped' = {}
      /\ memory' = [memory EXCEPT !.next_comment_id = IF @ = 0 THEN 1 ELSE @]
      /\ config' = config /\ file' = file /\ todo' = todo /\ steps' = steps
  BY DEF FinishLoad
<1>2. /\ memory \in Memories /\ Good(memory) /\ Good(file) /\ Valid(memory, config)
      /\ memory.comments \subseteq Comments /\ memory.next_comment_id \in Nat
      /\ memory.status \in [Objects -> Status] /\ memory.downtimes \subseteq Scheduled
  BY <1>1, MemoryFields DEF IInv, Good
<1> DEFINE n == IF memory.next_comment_id = 0 THEN 1 ELSE memory.next_comment_id
<1>3. n \in Nat /\ memory.next_comment_id <= n
  BY <1>2
<1>4. memory' = [memory EXCEPT !.next_comment_id = n]
  BY <1>1
<1> HIDE DEF n
<1>5. /\ memory' \in Memories /\ memory'.present = memory.present
      /\ memory'.status = memory.status /\ memory'.downtimes = memory.downtimes
      /\ memory'.comments = memory.comments /\ memory'.next_comment_id = n
  BY <1>2, <1>3, <1>4 DEF Memories
<1>6. IdsBelow(memory')
  <2>1. \A c \in memory.comments : c.id \in Nat /\ c.id < memory.next_comment_id
    BY <1>2 DEF Good, IdsBelow, Comments
  <2>2. \A o \in Objects : /\ memory.status[o].flapping_comment_id \in Nat
                           /\ memory.status[o].flapping_comment_id # 0 =>
                                memory.status[o].flapping_comment_id < memory.next_comment_id
    BY <1>2 DEF Good, IdsBelow, Status
  <2>3. \A d \in memory.downtimes : /\ d.comment_id \in Nat
                                    /\ d.comment_id # 0 => d.comment_id < memory.next_comment_id
    BY <1>2 DEF Good, IdsBelow, Scheduled
  <2> QED
    BY <1>2, <1>3, <1>5, <2>1, <2>2, <2>3 DEF IdsBelow
<1>7. Good(memory')
  BY <1>2, <1>5, <1>6 DEF Good, IdsAgree, OwnersAgree, AcknowledgementsAgree
<1>8. Valid(memory', config)
  BY <1>2, <1>5, <1>7 DEF Valid, MarksAgree
<1>9. TypeOK'
  BY <1>1, <1>5 DEF IInv, TypeOK
<1>10. StopsAgree'
  BY <1>1 DEF StopsAgree
<1> QED
  BY <1>1, <1>2, <1>7, <1>8, <1>9, <1>10 DEF IInv

-----------------------------------------------------------------------------
\* The theorems.

\* The invariant holds in every behaviour.
THEOREM RetentionInvariant == Spec => []IInv
<1>1. Init => IInv
  BY RetentionConstants, InitIsGood
<1>2. IInv /\ [Next]_vars => IInv'
  <2> SUFFICES ASSUME IInv, [Next]_vars PROVE IInv'
    OBVIOUS
  <2>1. CASE \/ \E o \in memory.present :
                    \/ HandleResult(o) \/ AcknowledgeProblem(o) \/ RemoveAcknowledgement(o)
                    \/ CmdAddComment(o) \/ CmdDeleteAllComments(o)
                    \/ EnableFlapDetection(o) \/ DisableFlapDetection(o)
                    \/ ClearFlappingState(o)
                    \/ ChangeCheckPeriod(o) \/ ScheduleDowntime(o)
             \/ CmdDeleteComment \/ DeleteDowntime
    BY <2>1, RetentionConstants, CommandsAreGood
  <2>2. CASE SaveStateInformation
    BY <2>2, SaveIsGood
  <2>3. CASE Restart
    BY <2>3, RetentionConstants, RestartIsGood
  <2>4. CASE Shutdown
    BY <2>4, ShutdownIsGood
  <2>5. CASE Crash
    BY <2>5, CrashIsGood
  <2>6. CASE Start
    BY <2>6, RetentionConstants, StartIsGood
  <2>7. CASE \E o \in Objects, p \in Percentages : LoadObject(o, p)
    BY <2>7, RetentionConstants, LoadObjectIsGood
  <2>8. CASE \E c \in todo.comments : LoadComment(c)
    BY <2>8, RetentionConstants, LoadCommentIsGood
  <2>9. CASE \E d \in todo.downtimes : LoadDowntime(d)
    BY <2>9, RetentionConstants, LoadDowntimeIsGood
  <2>10. CASE FinishLoad
    BY <2>10, FinishLoadIsGood
  <2>11. CASE UNCHANGED vars
    BY <2>11 DEF vars, IInv, TypeOK, StopsAgree, Valid, Good, IdsAgree, OwnersAgree,
                 AcknowledgementsAgree, IdsBelow, MarksAgree, Read, InOrder, Kept,
                 SameLasting, Restored
  <2> QED
    BY <2>1, <2>2, <2>3, <2>4, <2>5, <2>6, <2>7, <2>8, <2>9, <2>10, <2>11 DEF Next
<1> QED
  BY <1>1, <1>2, PTL DEF Spec

\* Types.
THEOREM RetentionTypes == Spec => []TypeOK
<1>1. IInv => TypeOK
  BY DEF IInv
<1> QED
  BY <1>1, RetentionInvariant, PTL

\* Whatever is deleted, saved, lost, loaded or reconfigured, a comment id names
\* one comment, and the one its owner means (add_new_comment, delete_comment,
\* xrddefault_read_state_information).
THEOREM RetentionCommentsAgree == Spec => []CommentsAgree
<1>1. IInv => CommentsAgree
  BY DEF IInv, Good, CommentsAgree
<1> QED
  BY <1>1, RetentionInvariant, PTL

\* What was changed at run time outlives an orderly stop, where the new
\* configuration retains it (modified_attributes).
THEOREM RetentionChangesAreKept == Spec => []ChangesAreKept
<1>1. IInv /\ RetentionConstants => ChangesAreKept
  <2> SUFFICES ASSUME IInv, RetentionConstants, phase = "loading", todo = Nothing,
                      NEW before \in stopped
               PROVE  /\ \A c \in before.memory.comments :
                             c.persistent /\ c.object \in config.present => c \in memory.comments
                      /\ \A o \in before.memory.present \cap config.present :
                             LET was == before.memory.status[o]
                                 is == memory.status[o]
                             IN  config.retain_status[o] /\ config.retain_nonstatus[o] =>
                                   /\ is.acknowledged = was.acknowledged
                                   /\ was.flap_detection_enabled
                                          # before.config.flap_detection[o] =>
                                        is.flap_detection_enabled = was.flap_detection_enabled
                                   /\ was.check_period # before.config.check_period[o]
                                      /\ was.check_period \in config.periods =>
                                        is.check_period = was.check_period
                                   /\ is.check_period_ptr = config.check_period[o]
    BY DEF ChangesAreKept
  <2>1. /\ todo.objects = {} /\ todo.comments = {}
    BY DEF Nothing
  <2>2. /\ before.memory = file /\ MarksAgree(file, before.config)
        /\ Kept(memory, file) /\ file \in Memories /\ config \in Settings
    BY DEF IInv, StopsAgree, TypeOK, RetentionConstants
  <2>3. \A c \in before.memory.comments :
            c.persistent /\ c.object \in config.present => c \in memory.comments
    BY <2>1, <2>2 DEF Kept
  <2>4. ASSUME NEW o \in before.memory.present \cap config.present,
               config.retain_status[o], config.retain_nonstatus[o]
        PROVE  /\ memory.status[o].acknowledged = file.status[o].acknowledged
               /\ file.status[o].flap_detection_enabled # before.config.flap_detection[o] =>
                    memory.status[o].flap_detection_enabled = file.status[o].flap_detection_enabled
               /\ file.status[o].check_period # before.config.check_period[o]
                  /\ file.status[o].check_period \in config.periods =>
                    memory.status[o].check_period = file.status[o].check_period
               /\ memory.status[o].check_period_ptr = config.check_period[o]
    <3> DEFINE was == file.status[o]
               r == Restored(config, was, o)
    <3>1. o \in Objects /\ was \in Status
      BY <2>2, <2>4, MemoryFields
    <3>2. SameLasting(memory.status[o], r)
      BY <2>1, <2>2, <2>4 DEF Kept
    <3>3. Marked(was, before.config, o)
      BY <2>2, <3>1 DEF MarksAgree
    <3>4. was.acknowledged \in BOOLEAN
      BY <3>1 DEF Status
    <3>5. r.acknowledged = was.acknowledged
      BY <2>4, <3>4 DEF Restored
    <3>6. "flap_detection" \in was.modified =>
              r.flap_detection_enabled = was.flap_detection_enabled
      BY <2>4 DEF Restored
    <3>7. "check_period" \in was.modified /\ was.check_period \in config.periods =>
              r.check_period = was.check_period
      BY <2>4 DEF Restored
    <3>10. r.check_period_ptr = config.check_period[o]
      BY DEF Restored
    <3> HIDE DEF r, was
    <3>8. /\ memory.status[o].acknowledged = r.acknowledged
          /\ memory.status[o].flap_detection_enabled = r.flap_detection_enabled
          /\ memory.status[o].check_period = r.check_period
          /\ memory.status[o].check_period_ptr = config.check_period[o]
      BY <3>2, <3>10 DEF SameLasting
    <3>9. /\ was.flap_detection_enabled # before.config.flap_detection[o] =>
                 "flap_detection" \in was.modified
          /\ was.check_period # before.config.check_period[o] => "check_period" \in was.modified
      BY <3>3 DEF Marked
    <3> QED
      BY <3>5, <3>6, <3>7, <3>8, <3>9 DEF was
  <2> QED
    BY <2>2, <2>3, <2>4
<1> QED
  BY <1>1, RetentionConstants, RetentionInvariant, PTL
=============================================================================
