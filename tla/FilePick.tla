------------------------------- MODULE FilePick -------------------------------
(***************************************************************************)
(* Which file of a torrent a play serves: the choosers of engine.go.       *)
(*                                                                         *)
(* A file is [video, sample, states, num, words, size]: whether its        *)
(* extension is a video's, whether its name says "sample", the episode     *)
(* its name states as a release title would (0: none), the bare number at  *)
(* the head of its name (0: none), the words of its name.  Files are       *)
(* numbered from 1; 0 is "no file" and, for the caller's index, "none".    *)
(***************************************************************************)
EXTENDS Integers, Sequences, FiniteSets, FiniteSetsExt

NoFile == 0

Videos(fs) == {i \in DOMAIN fs : fs[i].video}

\* The first of the largest: the loops compare with a strict >.
Largest(fs, S) == Min({i \in S : \A j \in S : fs[j].size <= fs[i].size})

ChooseFile(fs, want) ==
  LET main == {i \in Videos(fs) : ~(fs[i].sample /\ Len(fs) > 1)} IN
  IF fs = <<>> THEN NoFile
  ELSE IF want \in DOMAIN fs THEN want
  ELSE Largest(fs, IF main # {} THEN main ELSE DOMAIN fs)

\* The title's word goes first; a bare number only settles what it leaves open.
FileSignal(f, ep) ==
  LET said == IF f.states # 0 THEN f.states ELSE f.num IN
  IF ep <= 0 \/ said = 0 THEN 0 ELSE IF said = ep THEN 1 ELSE -1

\* Mutant of ChooseFileForEpisode: a pack that numbers its episodes and lacks
\* this one falls through to the largest file.
ChooseFileForEpisodeFallsThrough(fs, want, ep) ==
  LET hits == {i \in Videos(fs) : FileSignal(fs[i], ep) > 0} IN
  IF want \in DOMAIN fs THEN want
  ELSE IF ep > 0 /\ hits # {} THEN Min(hits)
  ELSE IF ep > 0 /\ Cardinality(Videos(fs)) > 3 THEN NoFile
  ELSE ChooseFile(fs, want)

ChooseFileForEpisode(fs, want, ep) ==
  LET hits     == {i \in Videos(fs) : FileSignal(fs[i], ep) > 0}
      numbered == {i \in Videos(fs) : FileSignal(fs[i], ep) < 0} IN
  IF want \in DOMAIN fs THEN want
  ELSE IF ep > 0 /\ hits # {} THEN Min(hits)
  ELSE IF ep > 0 /\ (numbered # {} \/ Cardinality(Videos(fs)) > 3) THEN NoFile
  ELSE ChooseFile(fs, want)

\* The words of the hint that tell the videos apart.
Discriminating(fs, hint) ==
  {w \in hint : \E i \in Videos(fs) : w \notin fs[i].words}

Hits(fs, i, hint) == Cardinality(Discriminating(fs, hint) \cap fs[i].words)

\* Most discriminating words, then the largest, then the first.
ChooseFileForTitle(fs, want, hint) ==
  LET hit  == {i \in Videos(fs) : Hits(fs, i, hint) > 0}
      best == {i \in hit : \A j \in hit : Hits(fs, j, hint) <= Hits(fs, i, hint)} IN
  IF want \in DOMAIN fs THEN want
  ELSE IF best # {} THEN Largest(fs, best)
  ELSE ChooseFile(fs, want)
=============================================================================
