--------------------------- MODULE MCForecastSolar ---------------------------
EXTENDS ForecastSolar

CONSTANTS e1, e2, key1

\* Two entries, so that their setups interleave; the empty key the options
\* flow stores, a real key, and an absent option.
MCEntries == {e1, e2}
MCApiKeys == {"", key1, NoKey}
====
