-------------------------- MODULE MCDiscourseSweep --------------------------
(* A small instance of DiscourseSweep.                                     *)
EXTENDS DiscourseSweep, TLC

CONSTANTS reddit, rss, f1, f2, f3, x, d, none

Identifier(kind, value) == [kind |-> kind, value |-> value]
Post(source, feed, names, id) == [source |-> source, feed |-> feed, names |-> names, id |-> id]
Row(arxiv, doi, id) == [arxiv |-> arxiv, doi |-> doi, id |-> id]

\* An old post of a subreddit and of a feed; later one that pushes out the
\* first and names a work by both identifiers, and one of another subreddit.
mcOldPosts == {Post(reddit, f1, {}, 1), Post(rss, f2, {}, 2)}
mcPosts ==
  mcOldPosts \cup {Post(reddit, f1, {Identifier("arxiv", x), Identifier("doi", d)}, 3),
                   Post(reddit, f3, {}, 4)}

\* A preprint and another paper; later a row with an identifier of each, both
\* spelled otherwise than in the first two.
mcOldPapers == {Row(x, none, 1), Row(none, d, 2)}
mcPapers == mcOldPapers \cup {Row(x, d, 3)}

\* Reddit is polled before the feeds.
mcPlace == [s \in {reddit, rss} |-> IF s = reddit THEN 1 ELSE 2]
WorkerSymmetry == Permutations(Workers)
=============================================================================
