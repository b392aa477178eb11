------------------------------- MODULE MCSales -------------------------------
(* Two requests and two connections, one of which the product repository may
   keep: two that wait for a third connection, or one that waits for a second
   while another only waits.                                              *)
EXTENDS Sales

=============================================================================
