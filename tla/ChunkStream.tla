---------------------------- MODULE ChunkStream -----------------------------
(***************************************************************************)
(* StreamingChunker (cdc.rs): put_file cuts a stream into chunks while it  *)
(* arrives in messages of any size.  Deduplication works only if the cuts  *)
(* depend on the content and not on how the messages happened to be sized. *)
(*                                                                         *)
(* The content is the function CutAfter, fixed at the start: the length    *)
(* FastCDC gives a chunk that begins at an offset when enough bytes follow.*)
(***************************************************************************)
EXTENDS Naturals, Sequences

CONSTANTS MinChunk, MaxChunk,  \* ChunkerConfig.min_size and max_size
          StreamLength         \* bytes of the stream

ASSUME ChunkAssumption == /\ MinChunk \in Nat \ {0} /\ MaxChunk \in Nat
                          /\ MinChunk <= MaxChunk /\ StreamLength \in Nat

VARIABLES cutAfter,   \* the content, as above
          chunkFrom,  \* StreamingChunker.total_offset
          chunkTo,    \* total_offset + buffer.len()
          chunkOut,   \* the chunks given out: <<offset, length>>
          chunkDone   \* finish() has been called

chunkVars == <<cutAfter, chunkFrom, chunkTo, chunkOut, chunkDone>>

\* The chunk FastCDC cuts at offset s of data that ends at e: no more than
\* is there, and all of it when it is not more than the minimum.
FastCut(s, e) == IF e - s <= MinChunk \/ cutAfter[s] > e - s THEN e - s
                                                             ELSE cutAfter[s]

\* The chunks of the bytes from s to e, as FastCDC's iterator yields them.
Cuts(s, e) ==
    LET f[o \in s..e] == IF o = e THEN <<>>
                         ELSE <<<<o, FastCut(o, e)>>>> \o f[o + FastCut(o, e)]
    IN f[s]

ChunkEnd(chunk) == chunk[1] + chunk[2]

\* process_buffer: every chunk that ends before the buffer does; the last
\* one only when no more data can come.
Processed(s, e, final) == SelectSeq(Cuts(s, e), LAMBDA k : final \/ ChunkEnd(k) < e)

Emit(s, e, final) ==
    LET out == Processed(s, e, final)
    IN /\ chunkOut' = chunkOut \o out
       /\ chunkFrom' = IF out = <<>> THEN s ELSE ChunkEnd(out[Len(out)])

\* feed: the message joins the buffer, which is cut once it has reached
\* buffer_threshold, twice the largest chunk.
Feed(n) ==
    LET e == chunkTo + n
    IN /\ ~chunkDone /\ e <= StreamLength
       /\ chunkTo' = e
       /\ IF e - chunkFrom < 2 * MaxChunk THEN UNCHANGED <<chunkOut, chunkFrom>>
                                          ELSE Emit(chunkFrom, e, FALSE)
       /\ UNCHANGED <<cutAfter, chunkDone>>

\* finish: put_file has seen the end of a stream that carried data.
Finish ==
    /\ ~chunkDone /\ chunkTo > 0
    /\ Emit(chunkFrom, chunkTo, TRUE)
    /\ chunkDone' = TRUE
    /\ UNCHANGED <<cutAfter, chunkTo>>

ChunkInit ==
    /\ cutAfter \in [0..(StreamLength - 1) -> MinChunk..MaxChunk]
    /\ chunkFrom = 0 /\ chunkTo = 0 /\ chunkOut = <<>> /\ chunkDone = FALSE

ChunkNext == (\E n \in 1..StreamLength : Feed(n)) \/ Finish

\* FileManifest::validate of the chunks given out.
ValidManifest(chunks, size) ==
    /\ \A i \in DOMAIN chunks :
          /\ chunks[i][2] > 0
          /\ chunks[i][1] = IF i = 1 THEN 0 ELSE ChunkEnd(chunks[i - 1])
    /\ ChunkEnd(chunks[Len(chunks)]) = size

\* However the stream was cut into messages, a finished upload has exactly
\* the chunks that Chunker::chunk makes of the whole content and a manifest
\* that validates; before that, the chunks given out are a prefix of those,
\* and what is buffered between messages is less than the threshold.
CutsCanonical ==
    /\ chunkDone => /\ chunkOut = Cuts(0, chunkTo)
                    /\ ValidManifest(chunkOut, chunkTo)
    /\ LET whole == Cuts(0, StreamLength)
       IN ~chunkDone => \/ chunkOut = <<>>
                        \/ /\ Len(chunkOut) <= Len(whole)
                           /\ chunkOut = SubSeq(whole, 1, Len(chunkOut))
    /\ chunkTo - chunkFrom < 2 * MaxChunk
=============================================================================
