---------------------------- MODULE MCTableChunking ----------------------------
EXTENDS TableChunking

(* Two columns, with or without a merged cell that joins them. *)
MCGroupings == {<<<<1, 1>>, <<2, 2>>>>, <<<<1, 2>>>>}
===============================================================================
