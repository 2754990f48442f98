------------------------------- MODULE Store --------------------------------
(***************************************************************************)
(* The LXMF message store (lxmf/store.c): an append-only journal of        *)
(* checksummed records, and an index of it in memory that answers every    *)
(* question but the message bodies, which are read back from the journal.  *)
(*                                                                         *)
(* A record counts as one unit of file space.  An append that fails may    *)
(* have left nothing, a part of the record or all of it, and so may a      *)
(* crash.  What was acknowledged is on disk: every append ends in fsync.   *)
(***************************************************************************)
EXTENDS Integers, Sequences, FiniteSets, TLC, SequencesExt

CONSTANTS
  Ids, SourceOf,            \* messages, and the sender of each
  MaxMessages, MaxUnverified, MaxSources,
  MaxRecords,               \* LXMF_STORE_MAX_FILE_SIZE
  Signatures,               \* signature states of messages put
  Updated,                  \* the mutable fields that are updated, "remove" for removal
  Bodies,                   \* packed representations of a message, 0 the first
  MaxFailures, MaxCrashes   \* bounds: failed writes and crashes

ASSUME StoreConfig ==
  /\ {MaxMessages, MaxUnverified, MaxSources, MaxRecords} \subseteq Nat \ {0}
  /\ Updated \subseteq {"status", "delivery", "signature", "remove"}
  /\ Signatures \subseteq {"VERIFIED", "UNVERIFIED"}
  /\ MaxFailures \in Nat /\ MaxCrashes \in Nat /\ 0 \in Bodies

VARIABLES
  session,    \* "open", "closed", or "lost": open without a file
  journal,    \* the records in the file
  index,      \* what lxmf_store_list shows, in its order
  told,       \* contents a caller may find at the next open
  failures, crashes

vars == <<session, journal, index, told, failures, crashes>>

(* status: 0 is the one a message was stored with; delivery likewise. *)
Values == [status : {0, 1}, delivery : {0, 1}, signature : {"VERIFIED", "UNVERIFIED"}]
Stored(sig) == [status |-> 0, delivery |-> 0, signature |-> sig]
Whole(kind, id, fields, body) ==
  [kind |-> kind, id |-> id, fields |-> fields, body |-> body, whole |-> TRUE]

Position(ix, id) == SelectInSeq(ix, LAMBDA e : e.id = id)
Holds(ix, id) == Position(ix, id) # 0

(* The index after the n-th record. *)
Apply(ix, r, n) ==
  LET i == Position(ix, r.id) IN
  CASE r.kind = "put" /\ i = 0 -> Append(ix, [id |-> r.id, fields |-> r.fields, at |-> n])
    [] r.kind = "put" /\ i # 0 -> [ix EXCEPT ![i].fields = r.fields]
    [] r.kind = "replace"      -> [ix EXCEPT ![i] = [id |-> r.id, fields |-> r.fields, at |-> n]]
    [] r.kind = "remove"       -> IF i = 0 THEN ix ELSE RemoveAt(ix, i)
    [] r.kind = "update"       -> IF i = 0 THEN ix ELSE [ix EXCEPT ![i].fields = r.fields @@ @]

(* scan: replay up to the first record that is not whole, or that replaces a
   message not seen; more messages than the index holds is an error. *)
ScanStep(s, r, n) ==
  CASE s.stop # "NO" -> s
    [] s.stop = "NO" /\ (~r.whole \/ (r.kind = "replace" /\ ~Holds(s.index, r.id))) ->
         [s EXCEPT !.stop = "RECOVER"]
    [] s.stop = "NO" /\ r.whole /\ r.kind = "put" /\ ~Holds(s.index, r.id)
         /\ Len(s.index) = MaxMessages -> [s EXCEPT !.stop = "BOUNDS"]
    [] OTHER -> [index |-> Apply(s.index, r, n), good |-> n, stop |-> "NO"]

Scan(j) ==
  LET Upto[n \in 0 .. Len(j)] ==
        IF n = 0 THEN [index |-> <<>>, good |-> 0, stop |-> "NO"]
                 ELSE ScanStep(Upto[n - 1], j[n], n)
  IN Upto[Len(j)]

(* What a caller sees: lxmf_store_read and lxmf_store_read_packed. *)
Contents(ix, j) ==
  [k \in DOMAIN ix |-> [id |-> ix[k].id, fields |-> ix[k].fields, body |-> j[ix[k].at].body]]

Init ==
  /\ session = "open" /\ journal = <<>> /\ index = <<>> /\ told = {<<>>}
  /\ failures = 0 /\ crashes = 0

----------------------------------------------------------------------------
(* The caps on messages whose sender is not known. *)
Unverified(ix) == {k \in DOMAIN ix : ix[k].fields.signature # "VERIFIED"}
From(ix, source) == {k \in Unverified(ix) : SourceOf[ix[k].id] = source}
Sources(ix) == {SourceOf[ix[k].id] : k \in Unverified(ix)}

(* evict_one_unverified: the oldest of the sender that holds the most. *)
Victim_Oldest(ix) == CHOOSE k \in Unverified(ix) : \A o \in Unverified(ix) : k <= o
Victim(ix) ==
  LET Held(k) == Cardinality(From(ix, SourceOf[ix[k].id]))
      most == {k \in Unverified(ix) : \A o \in Unverified(ix) : Held(o) <= Held(k)}
  IN CHOOSE k \in most : \A o \in most : k <= o

Admits(ix, source) ==
  /\ Cardinality(Unverified(ix)) < MaxUnverified
  /\ From(ix, source) # {} \/ Cardinality(Sources(ix)) < MaxSources

(* enforce_unverified_caps: the messages it evicts, in order. *)
Evictions(ix, source) ==
  LET Round[n \in 0 .. Len(ix)] ==
        IF n = 0 THEN [left |-> ix, gone |-> <<>>]
        ELSE LET r == Round[n - 1] IN
             IF Admits(r.left, source) THEN r
             ELSE [left |-> RemoveAt(r.left, Victim(r.left)),
                   gone |-> Append(r.gone, r.left[Victim(r.left)].id)]
  IN Round[Len(ix)].gone

(* lxmf_store_put: the records it appends for a message it does not hold. *)
PutRecords(id, sig) ==
  LET gone == IF sig = "VERIFIED" THEN <<>> ELSE Evictions(index, SourceOf[id])
  IN [k \in DOMAIN gone |-> Whole("remove", gone[k], Stored(sig), 0)]
       \o (IF Len(index) - Len(gone) >= MaxMessages THEN <<>>
           ELSE <<Whole("put", id, Stored(sig), 0)>>)

(* update_status, update_delivery, update_signature, remove, update_packed. *)
Changes ==
  {Whole("update", id, f :> 1, 0) : id \in Ids, f \in Updated \cap {"status", "delivery"}}
    \cup {Whole("update", id, f :> "VERIFIED", 0) : id \in Ids, f \in Updated \cap {"signature"}}
    \cup {Whole(k, id, Stored("VERIFIED"), 0) : id \in Ids, k \in Updated \cap {"remove"}}
Operations ==
  {PutRecords(id, sig) : id \in {i \in Ids : ~Holds(index, i)}, sig \in Signatures}
    \cup {<<r>> : r \in {c \in Changes : Holds(index, c.id)}}
    \cup {<<Whole("replace", index[k].id, index[k].fields, b)>> : k \in DOMAIN index, b \in Bodies \ {0}}

(* The index and the journal with the first k records of an operation. *)
Appended(w, k) == journal \o SubSeq(w, 1, k)
Indexed(w, k) ==
  LET Upto[n \in 0 .. k] ==
        IF n = 0 THEN index ELSE Apply(Upto[n - 1], w[n], Len(journal) + n)
  IN Upto[k]

(* An operation that ends by itself: all of it, or as much as the file has
   room for and then LXMF_ERR_BOUNDS. *)
Fitting(w) == IF Len(journal) + Len(w) <= MaxRecords THEN Len(w) ELSE MaxRecords - Len(journal)
Perform(w) ==
  /\ session = "open"
  /\ journal' = Appended(w, Fitting(w)) /\ index' = Indexed(w, Fitting(w))
  /\ told' = {Contents(index', journal')}
  /\ UNCHANGED <<session, failures, crashes>>

(* What an append that did not succeed may leave behind. *)
Leavings(r) == {<<>>, <<[r EXCEPT !.whole = FALSE]>>, <<r>>}
Interrupted(w, k, rest) ==
  /\ session = "open" /\ k < Fitting(w) /\ rest \in Leavings(w[k + 1])
  /\ journal' = Appended(w, k) \o rest
  /\ told' = {Contents(Indexed(w, n), Appended(w, n)) : n \in {k, k + 1}}

(* append_record or append_put_record fails: the index stays as it was before
   the failed record, and the session goes on. *)
Kept(w, k) == Indexed(w, k)
FailWrite(w, k, rest) ==
  /\ failures < MaxFailures /\ failures' = failures + 1
  /\ Interrupted(w, k, rest) /\ index' = Kept(w, k)
  /\ UNCHANGED <<session, crashes>>

CrashInWrite(w, k, rest) ==
  /\ crashes < MaxCrashes /\ crashes' = crashes + 1
  /\ Interrupted(w, k, rest) /\ session' = "closed" /\ index' = <<>>
  /\ UNCHANGED failures

(* lxmf_store_close, or a crash between operations. *)
Close ==
  /\ session \in {"open", "lost"} /\ crashes < MaxCrashes /\ crashes' = crashes + 1
  /\ session' = "closed" /\ index' = <<>>
  /\ UNCHANGED <<journal, told, failures>>

(* lxmf_store_open: the journal is cut where the scan stopped. *)
Open ==
  /\ session = "closed" /\ Scan(journal).stop # "BOUNDS"
  /\ session' = "open" /\ index' = Scan(journal).index
  /\ journal' = SubSeq(journal, 1, Scan(journal).good)
  /\ told' = {Contents(index', journal')}
  /\ UNCHANGED <<failures, crashes>>

(* lxmf_store_compact: a new file with one put for each message replaces the
   old one in a single rename. *)
Compacted_Forgetful ==
  [k \in DOMAIN index |-> Whole("put", index[k].id, index[k].fields, 0)]
Compacted ==
  [k \in DOMAIN index |-> Whole("put", index[k].id, index[k].fields, journal[index[k].at].body)]
Compact ==
  /\ session = "open" /\ journal' = Compacted /\ index' = Scan(Compacted).index
  /\ UNCHANGED <<session, told, failures, crashes>>

(* The file cannot be opened again after the rename. *)
LoseFile ==
  /\ session = "open" /\ failures < MaxFailures /\ failures' = failures + 1
  /\ session' = "lost" /\ journal' = Compacted
  /\ UNCHANGED <<index, told, crashes>>

Next ==
  \/ session = "open" /\ \E w \in Operations :
       \/ Perform(w)
       \/ \E k \in 0 .. Len(w) - 1 : \E rest \in Leavings(w[k + 1]) :
            FailWrite(w, k, rest) \/ CrashInWrite(w, k, rest)
  \/ Close \/ Open \/ Compact \/ LoseFile

Spec == Init /\ [][Next]_vars

----------------------------------------------------------------------------
(* Types: the index holds each message once and no more than it has room for. *)
TypeOK ==
  /\ session \in {"open", "closed", "lost"}
  /\ \A k \in DOMAIN index :
       /\ index[k].id \in Ids /\ index[k].fields \in Values /\ index[k].at \in 1 .. MaxRecords
       /\ \A l \in DOMAIN index : index[k].id = index[l].id => k = l
  /\ Len(index) <= MaxMessages /\ Len(journal) <= MaxRecords
  /\ failures \in 0 .. MaxFailures /\ crashes \in 0 .. MaxCrashes

(* However writes are cut short by crashes, as long as none fails, opening the
   journal succeeds and shows what callers were last told, or that with the
   operation that was cut short (scan against the index that append_record's
   callers maintain; the order, on which evict_one_unverified relies to choose
   the same victim after a restart, included). *)
Recoverable ==
  failures = 0 =>
    LET s == Scan(journal) IN s.stop # "BOUNDS" /\ Contents(s.index, journal) \in told

(* Every indexed message has its body where the index says: in a whole record
   of that message (upsert, lxmf_store_update_packed, lxmf_store_compact and
   seek_body), after failed writes too. *)
BodiesReadable ==
  session = "open" => \A k \in DOMAIN index :
    /\ index[k].at \in DOMAIN journal
    /\ LET r == journal[index[k].at]
       IN r.whole /\ r.id = index[k].id /\ r.kind \in {"put", "replace"}

(* Messages that nobody could verify stay within both caps
   (LXMF_STORE_MAX_UNVERIFIED, LXMF_STORE_MAX_UNVERIFIED_SOURCES), also after a
   restart, but for those whose put was reported as failed and is in the file
   all the same: the next scan counts each of them above the caps. *)
UnverifiedCapped ==
  /\ Cardinality(Unverified(index)) <= MaxUnverified + failures
  /\ Cardinality(Sources(index)) <= MaxSources + failures

(* A put that succeeds leaves both caps kept, whatever failed writes and
   restarts had done to them (enforce_unverified_caps), and takes a retained
   message from a sender only when no other has more left: the one that floods
   is drained first (evict_one_unverified). *)
DrainsFlood ==
  \A id \in Ids : ~Holds(index, id) /\ Perform(PutRecords(id, "UNVERIFIED")) =>
    LET Left(s) == {k \in From(index, s) : Holds(index', index[k].id)}
    IN /\ Holds(index', id) => /\ Cardinality(Unverified(index')) <= MaxUnverified
                              /\ Cardinality(Sources(index')) <= MaxSources
       /\ \A s, t \in Sources(index) :
            Left(s) # From(index, s) => Cardinality(Left(t)) <= Cardinality(Left(s)) + 1

(* A message that was accepted is there after a restart. *)
AcceptedSurvives ==
  LET s == Scan(journal) IN
  \E c \in told : \A k \in DOMAIN c : Holds(s.index, c[k].id)
=============================================================================
