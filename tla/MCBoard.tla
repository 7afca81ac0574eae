------------------------------ MODULE MCBoard -------------------------------
EXTENDS Board

\* Measurements that use every bit the driver picks out, valid and not.
MCSamples ==
  {[ir |-> 1023, ir_of |-> 0, ps |-> 661, ps_of |-> 0, als |-> 43707],
   [ir |-> 514, ir_of |-> 1, ps |-> 1007, ps_of |-> 1, als |-> 255]}

\* Measurements of both signs, at the ends of the range and of a byte.
MCMotions ==
  {<<0, -1, 255, 256, -256, 32767, -32768>>, <<4660, 127, 128, -129, -32767, 1, 22136>>}
=============================================================================
