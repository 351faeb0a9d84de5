------------------------------ MODULE Samples ------------------------------
\* What several plans do with the samples of a sensor.
EXTENDS Integers, Sequences

\* std::fabs
Abs(n) == IF n < 0 THEN -n ELSE n

\* The sum of samples.
Total(samplesRead) ==
  LET sum[i \in 0 .. Len(samplesRead)] == IF i = 0 THEN 0 ELSE sum[i - 1] + samplesRead[i]
  IN  sum[Len(samplesRead)]
=============================================================================
