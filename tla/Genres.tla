-------------------------------- MODULE Genres --------------------------------
(***************************************************************************)
(* The ranking of a user's genres by the Stats worker: the first genres of *)
(* each of the top tracks are counted, and the most frequent are kept with *)
(* their counts. A track is the sequence of the genres of its first        *)
(* artist.                                                                 *)
(***************************************************************************)
EXTENDS Naturals, Sequences, FiniteSets, SequencesExt

CONSTANTS
    GenresPerTrack,   \* take(3)
    GenresShown       \* take(5)

ASSUME GenresAssumption == GenresPerTrack \in Nat \ {0} /\ GenresShown \in Nat \ {0}

(* Array#take *)
Take(s, n) == SubSeq(s, 1, IF n < Len(s) THEN n ELSE Len(s))

ExtractGenresFromTracks(tracks) ==
    FlattenSeq([i \in DOMAIN tracks |-> Take(tracks[i], GenresPerTrack)])

(* genre_count, a Hash with the default 0, after the each. *)
GenreCount(genres) ==
    LET count[n \in 0..Len(genres)] ==
          IF n = 0 THEN [g \in Range(genres) |-> 0]
          ELSE [count[n - 1] EXCEPT ![genres[n]] = @ + 1]
    IN  count[Len(genres)]

(* Mutation: sort_by without the minus sign. *)
CalculateLeastGenres(genres) ==
    LET count == GenreCount(genres)
        sorted == {s \in SetToSeqs(DOMAIN count) :
                      \A i, j \in DOMAIN s : i < j => count[s[i]] <= count[s[j]]}
    IN  {Take([i \in DOMAIN s |-> <<s[i], count[s[i]]>>], GenresShown) : s \in sorted}

(* calculate_top_genres: the pairs by falling count, cut off. sort_by is    *)
(* not stable, so genres with the same count come in any order: the result  *)
(* is one of a set.                                                         *)
CalculateTopGenres(genres) ==
    LET count == GenreCount(genres)
        sorted == {s \in SetToSeqs(DOMAIN count) :
                      \A i, j \in DOMAIN s : i < j => count[s[i]] >= count[s[j]]}
    IN  {Take([i \in DOMAIN s |-> <<s[i], count[s[i]]>>], GenresShown) : s \in sorted}
-------------------------------------------------------------------------------
(* What the ranking means, without counting loop or sort. *)

GenresOf(tracks) == UNION {Range(tracks[i]) : i \in DOMAIN tracks}

(* How often is g among the first genres of a track? *)
Plays(tracks, g) ==
    Cardinality({p \in (DOMAIN tracks) \X (1..GenresPerTrack) :
                    p[2] \in DOMAIN tracks[p[1]] /\ tracks[p[1]][p[2]] = g})

(* top lists genres with their plays, most played first, and leaves out     *)
(* only genres played no more than each of a full list.                     *)
MostPlayed(tracks, top) ==
    LET listed == {top[k][1] : k \in DOMAIN top}
    IN  /\ Len(top) <= GenresShown
        /\ \A k \in DOMAIN top : top[k][2] = Plays(tracks, top[k][1]) /\ top[k][2] > 0
        /\ \A j, k \in DOMAIN top : j < k => /\ top[j][2] >= top[k][2]
                                             /\ top[j][1] # top[k][1]
        /\ \A g \in GenresOf(tracks) \ listed : Plays(tracks, g) > 0 =>
              /\ Len(top) = GenresShown
              /\ \A k \in DOMAIN top : Plays(tracks, g) <= top[k][2]
===============================================================================
