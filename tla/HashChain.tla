----------------------------- MODULE HashChain -----------------------------
(***************************************************************************)
(* The hash-linked lines of the WORM file (src/worm.py), as values.        *)
(*                                                                         *)
(* SHA-256 over the canonical JSON of {prev_hash, payload} is taken to be  *)
(* free of collisions: the hash of a payload chained to prev is the        *)
(* sequence of all payloads up to and including it, so two hashes are      *)
(* equal exactly when the two histories are.                               *)
(***************************************************************************)
EXTENDS Naturals, Sequences

ZeroHash == <<>>

Hash(prev, payload) == Append(prev, payload)

\* The record append() builds from the hash it read and its payload.
MakeRecord(prev, payload) ==
    [prev_hash |-> prev, payload |-> payload, record_hash |-> Hash(prev, payload)]

\* A line that is not valid JSON: a record whose bytes are only partly there.
TornLine == [torn |-> TRUE]

RecordsOver(P) == [prev_hash : Seq(P), payload : P, record_hash : Seq(P)]
LinesOver(P) == RecordsOver(P) \cup {TornLine}

EndsTorn(lines) == lines # <<>> /\ lines[Len(lines)] = TornLine

\* get_last_hash(): only the last line is parsed.
LastHash(lines) == IF lines = <<>> THEN ZeroHash ELSE lines[Len(lines)].record_hash

\* verify_integrity(): read_all() parses every line, then each record must
\* name the hash before it and carry the hash of its own content.
ExpectedPrev(lines, i) == IF i = 1 THEN ZeroHash ELSE lines[i - 1].record_hash
VerifyIntegrity(lines) ==
    \A i \in 1..Len(lines) :
        /\ lines[i] # TornLine
        /\ lines[i].prev_hash = ExpectedPrev(lines, i)
        /\ lines[i].record_hash = Hash(lines[i].prev_hash, lines[i].payload)

\* A write at offset 0 of a file that is not truncated: what lies beyond the
\* new content stays. Lines are taken to have one length.
Overwrite(old, new) == new \o SubSeq(old, Len(new) + 1, Len(old))
=============================================================================
