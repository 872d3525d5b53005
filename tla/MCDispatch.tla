----------------------------- MODULE MCDispatch -----------------------------
EXTENDS Dispatch, TLC

\* _chunk_batch of three events with max_items = 2.
MCChunks == <<{1, 2}, {3}>>

=============================================================================
