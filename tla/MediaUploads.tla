---------------------------- MODULE MediaUploads ----------------------------
(***************************************************************************)
(* How a file of OpenClaw gets to the Relay: passes over live events and   *)
(* history pages meet the same attachment (relayOutgoingMediaBlock,        *)
(* cachedUpload in src/src/openclaw/relay/outgoing-media-relay.ts) and     *)
(* share one upload (src/src/core/relay/file-upload.ts).                   *)
(*                                                                         *)
(* One attachment.  Its file is rewritten and removed while it is looked   *)
(* up, hashed and read; a version stands for the size and times of a file. *)
(* The cache, what is in flight and the memory of expired keys belong to a *)
(* connection; a pass of an old connection may outlive it.                 *)
(***************************************************************************)
EXTENDS Naturals, FiniteSets

CONSTANTS
  Pass,         \* projections that meet the attachment
  Versions,     \* 1..n, the versions the file goes through; 0 is no file
  SizeOf,       \* [Versions -> Nat], in bytes
  ChunkSizes,   \* those the Relay may ask for
  Attempts,     \* of retryOperation
  Waits,        \* OUTGOING_MEDIA_RECORD_WAIT_DELAYS_MS.length
  MaxConn       \* bound: connections

VARIABLES
  file,      \* the file's version
  versions,  \* history: the last version there was
  record,    \* OpenClaw's row of the attachment: "none", "partial" or "there"
  conn,      \* the current connection
  pass,      \* the passes, and the upload a pass has started
  cache,     \* outgoingMediaUploadCache of each connection: key -> version of the upload, 0 if none
  expired,   \* expiredUploadsByCache of each connection
  relay,     \* the Relay's upload of each idempotency key: "none", "kept" or "expired"
  told       \* history: <<connection, key>> of which the Relay said that it expired

vars == <<file, versions, record, conn, pass, cache, expired, relay, told>>

Keys == Versions
Idle == [at |-> "idle", conn |-> 0, reads |-> 0, key |-> 0, on |-> {},
         try |-> 1, size |-> 0, claimed |-> 0, whole |-> TRUE, chunk |-> 0, chunkSize |-> 1,
         sent |-> {}, shown |-> 0]

Init ==
  /\ file = 1 /\ versions = 1 /\ record \in {"none", "there"} /\ conn = 1
  /\ pass = [p \in Pass |-> Idle]
  /\ cache = [c \in 1..MaxConn |-> [k \in Keys |-> 0]]
  /\ expired = [c \in 1..MaxConn |-> {}]
  /\ relay = [k \in Keys |-> "none"] /\ told = {}

Uploading(p) == pass[p].at \in {"stat", "hash", "init", "chunk", "complete"}
Set(p, f) == pass' = [pass EXCEPT ![p] = f]
Ended(me, what, v) == [Idle EXCEPT !.at = what, !.shown = v, !.claimed = me.claimed]
Show(p, what, v) == Set(p, Ended(pass[p], what, v))
Rest == UNCHANGED <<file, versions, record, conn, relay>>

----------------------------------------------------------------------------
(* relayOutgoingMediaBlock.                                                *)

\* A live event waits for the record, a history page does not.
Meet(p) ==
  /\ pass[p].at = "idle"
  /\ \E reads \in {1, Waits + 1} :
       Set(p, [Idle EXCEPT !.at = "record", !.conn = conn, !.reads = reads])
  /\ UNCHANGED <<cache, expired, told>> /\ Rest

ReadRecord(p) ==
  /\ pass[p].at = "record"
  /\ CASE record = "there" -> Set(p, [pass[p] EXCEPT !.at = "key"])
       [] record = "partial" -> Show(p, "dropped", 0)
       [] record = "none" /\ pass[p].reads > 1 -> Set(p, [pass[p] EXCEPT !.reads = @ - 1])
       [] OTHER -> Show(p, "unavailable", 0)
  /\ UNCHANGED <<cache, expired, told>> /\ Rest

\* outgoingFileCacheKey.
\* Mutant of CacheKey: the key forgets the size and the times of the file.
CacheKeyOfPath(version) == 1
CacheKey(version) == version

StatForKey(p) ==
  /\ pass[p].at = "key"
  /\ IF file = 0 THEN Show(p, "unavailable", 0)
     ELSE Set(p, [pass[p] EXCEPT !.at = "lookup", !.key = CacheKey(file), !.claimed = file])
  /\ UNCHANGED <<cache, expired, told>> /\ Rest

\* cachedUpload, up to the upload's first await.
InFlight(p) == {q \in Pass \ {p} :
  Uploading(q) /\ pass[q].conn = pass[p].conn /\ pass[q].key = pass[p].key}
Lookup(p) ==
  LET me == pass[p] IN
  /\ me.at = "lookup"
  /\ CASE cache[me.conn][me.key] > 0 -> Show(p, "available", cache[me.conn][me.key])
       [] cache[me.conn][me.key] = 0 /\ InFlight(p) # {} ->
            Set(p, [me EXCEPT !.at = "wait", !.on = InFlight(p)])
       [] cache[me.conn][me.key] = 0 /\ InFlight(p) = {} /\ me.key \in expired[me.conn] ->
            Show(p, "unavailable", 0)
       [] OTHER -> Set(p, [me EXCEPT !.at = "stat"])
  /\ UNCHANGED <<cache, expired, told>> /\ Rest

\* The promise of p's upload settles: for p and for every pass that waits on it.
Settle(p, what, v) ==
  pass' = [q \in Pass |->
    IF q = p \/ (pass[q].on = {p} /\ pass[q].at = "wait")
    THEN Ended(pass[q], what, v) ELSE pass[q]]

\* An error: remembered if it still carries the Relay's code.
Fail(p, code) ==
  /\ Settle(p, "unavailable", 0)
  /\ expired' = IF code = "expired" THEN [expired EXCEPT ![pass[p].conn] = @ \cup {pass[p].key}]
                ELSE expired
  /\ UNCHANGED cache

----------------------------------------------------------------------------
(* uploadFileToRelay.                                                      *)

Stat(p) ==
  /\ pass[p].at = "stat"
  /\ IF file = 0 THEN Fail(p, "error")
     ELSE /\ Set(p, [pass[p] EXCEPT !.at = "hash", !.size = SizeOf[file], !.claimed = file])
          /\ UNCHANGED <<cache, expired>>
  /\ UNCHANGED told /\ Rest

Hash(p) ==
  /\ pass[p].at = "hash"
  /\ IF file = 0 THEN Fail(p, "error")
     ELSE /\ Set(p, [pass[p] EXCEPT !.at = "init", !.whole = (file = pass[p].claimed),
                                     !.claimed = file])
          /\ UNCHANGED <<cache, expired>>
  /\ UNCHANGED told /\ Rest

\* relayUploadErrorCode: the last try's error is a plain one, whatever it was.
Code(p, answer) == IF pass[p].try < Attempts THEN answer ELSE "error"

\* retryOperation: a try the network or a busy Relay spoils is made again.
Again(p, answer) ==
  IF answer = "lost" /\ pass[p].try < Attempts
  THEN Set(p, [pass[p] EXCEPT !.try = @ + 1]) /\ UNCHANGED <<cache, expired>>
  ELSE Fail(p, Code(p, answer))

InitUpload(p) ==
  /\ pass[p].at = "init"
  /\ \E answer \in (IF relay[pass[p].key] = "expired" THEN {"expired", "lost"}
                    ELSE {"ok", "lost", "refused"}) :
       /\ relay' = [relay EXCEPT ![pass[p].key] =
                      IF @ = "none" /\ answer # "refused" THEN "kept" ELSE @]
       /\ told' = IF answer = "expired" THEN told \cup {<<pass[p].conn, pass[p].key>>} ELSE told
       /\ IF answer # "ok" THEN Again(p, answer)
          ELSE IF file = 0 THEN Fail(p, "error")  \* it cannot be opened
          ELSE /\ \E size \in ChunkSizes :
                    Set(p, [pass[p] EXCEPT !.at = "chunk", !.try = 1, !.chunk = 0,
                                           !.chunkSize = size, !.sent = {}])
               /\ UNCHANGED <<cache, expired>>
  /\ UNCHANGED <<file, versions, record, conn>>

TotalChunks(size, chunkSize) ==
  IF size = 0 THEN 1 ELSE (size + chunkSize - 1) \div chunkSize

Least(a, b) == IF a < b THEN a ELSE b

\* The open handle reads the file as it is now, or as it was if it is gone.
ReadChunk(me, now) ==
  LET length == IF file = 0 THEN me.size ELSE SizeOf[now] IN
  (me.chunk * me.chunkSize) .. (Least(Least(me.size, length), (me.chunk + 1) * me.chunkSize) - 1)

PutChunk(p) ==
  LET me == pass[p] IN
  /\ me.at = "chunk"
  /\ \E answer \in {"ok", "lost", "refused"} :
       IF answer # "ok" THEN Again(p, answer)
       ELSE /\ Set(p, [me EXCEPT !.try = 1, !.chunk = @ + 1,
                         !.at = IF me.chunk + 1 = TotalChunks(me.size, me.chunkSize)
                                THEN "complete" ELSE "chunk",
                         !.sent = @ \cup ReadChunk(me, file),
                         !.whole = @ /\ file \in {0, me.claimed}])
            /\ UNCHANGED <<cache, expired>>
  /\ UNCHANGED told /\ Rest

Complete(p) ==
  LET me == pass[p] IN
  /\ me.at = "complete"
  /\ \E answer \in {"ok", "lost", "refused"} :
       IF answer # "ok" THEN Again(p, answer)
       ELSE /\ cache' = [cache EXCEPT ![me.conn][me.key] = me.claimed]
            /\ Settle(p, "available", me.claimed) /\ UNCHANGED expired
  /\ UNCHANGED told /\ Rest

----------------------------------------------------------------------------
(* OpenClaw, the Relay and the network.                                    *)

Rewrite == /\ versions + 1 \in Versions /\ versions' = versions + 1 /\ file' = versions'
           /\ UNCHANGED <<record, conn, pass, cache, expired, relay, told>>
Remove == /\ file # 0 /\ file' = 0
          /\ UNCHANGED <<versions, record, conn, pass, cache, expired, relay, told>>
Commit == /\ record = "none" /\ record' \in {"partial", "there"}
          /\ UNCHANGED <<file, versions, conn, pass, cache, expired, relay, told>>
CleanUp == /\ record = "there" /\ record' = "none"
           /\ UNCHANGED <<file, versions, conn, pass, cache, expired, relay, told>>
RelayForgets(k) == /\ relay[k] = "kept" /\ relay' = [relay EXCEPT ![k] = "expired"]
                   /\ UNCHANGED <<file, versions, record, conn, pass, cache, expired, told>>
Reconnect == /\ conn < MaxConn /\ conn' = conn + 1
             /\ UNCHANGED <<file, versions, record, pass, cache, expired, relay, told>>

Next ==
  \/ \E p \in Pass : \/ Meet(p) \/ ReadRecord(p) \/ StatForKey(p) \/ Lookup(p)
                       \/ Stat(p) \/ Hash(p) \/ InitUpload(p) \/ PutChunk(p) \/ Complete(p)
  \/ Rewrite \/ Remove \/ Commit \/ CleanUp \/ Reconnect
  \/ \E k \in Keys : RelayForgets(k)

Spec == Init /\ [][Next]_vars

----------------------------------------------------------------------------
(* Properties.                                                             *)

\* Two passes of one connection never upload the same thing at once.
OneAtATime == \A p, q \in Pass :
  p # q /\ Uploading(p) /\ Uploading(q) /\ pass[p].conn = pass[q].conn => pass[p].key # pass[q].key

\* A pass shows no version older than the one it found.
NeverStale == \A p \in Pass : pass[p].at = "available" => pass[p].shown >= pass[p].claimed

\* A file that held still is completed with every byte of it sent.
WholeFile == \A p \in Pass :
  pass[p].at = "complete" /\ pass[p].whole => pass[p].sent = 0..(pass[p].size - 1)

\* What a pass shows is what the file was when it looked or later, uploaded
\* once and to its last byte, whichever pass did it and however often
\* requests were made again.
AttachmentsAreTrue == OneAtATime /\ NeverStale /\ WholeFile

\* "Remember that result, so that not every projection of the history makes
\* the same failing request for the attachment again" (outgoing-media-relay.ts:84):
\* no upload is begun for a key the connection was told had expired.
ExpiredIsRemembered == \A p \in Pass :
  pass[p].at \in {"stat", "hash", "init"} /\ pass[p].try = 1
    => <<pass[p].conn, pass[p].key>> \notin told
=============================================================================
